---- MODULE Spec2Model ----
(***************************************************************************)
(* FinLens front-end data service: the health scorer of                    *)
(* frontend/src/services/dataService.ts (calculateServiceHealth and the    *)
(* helpers it calls).                                                      *)
(*                                                                         *)
(* JSON values are modelled as tagged records of one shape, so that the    *)
(* typeof tests of the code are decided by the tag.  Numbers are integers; *)
(* within the bounds below the double arithmetic of the code is exact      *)
(* (the first ratio a/b*100 that a double rounds differently from the      *)
(* exact quotient is 23/40).                                               *)
(***************************************************************************)
EXTENDS Integers, FiniteSets, Sequences, TLC

\* Largest resource count / numerator fact drawn for a payload.
MaxCount == 10
\* Largest stopped / terminated count drawn for a state distribution.
MaxAux == 3
\* Longest resource list handed to filterResourcesByRegion.
MaxLen == 3
\* Most fields a raw payload record carries.
MaxFields == 2

(***************************************************************************)
(* JSON values                                                             *)
(***************************************************************************)
Undefined == [t |-> "undefined", n |-> 0, s |-> ""]
Num(n) == [t |-> "number", n |-> n, s |-> ""]
Str(s) == [t |-> "string", n |-> 0, s |-> s]
Bool(b) == [t |-> "boolean", n |-> IF b THEN 1 ELSE 0, s |-> ""]
JsNull == [t |-> "null", n |-> 0, s |-> ""]

\* Number(s) for the strings the payloads carry: the parsed integer, or
\* NaN (finite = FALSE) for a string that is no number.
NumberOfString(s) ==
  CASE s = "2" -> [finite |-> TRUE, n |-> 2]
    [] s = "0" -> [finite |-> TRUE, n |-> 0]
    [] s = "" -> [finite |-> TRUE, n |-> 0]
    [] OTHER -> [finite |-> FALSE, n |-> 0]

\* String.prototype.toLowerCase on the status strings the payloads carry.
toLowerCase(s) ==
  CASE s = "Success" -> "success"
    [] s = "SUCCESS" -> "success"
    [] s = "FAILED" -> "failed"
    [] s = "Failed" -> "failed"
    [] s = "Partial" -> "partial"
    [] s = "PARTIAL" -> "partial"
    [] OTHER -> s

(***************************************************************************)
(* Payloads: BackendServiceDetail | null.  A summary is a record of the    *)
(* two declared fields and the service-specific facts the scorer reads.    *)
(***************************************************************************)
NoStateDistribution ==
  [t |-> "undefined", running |-> Undefined, stopped |-> Undefined,
   terminated |-> Undefined, pending |-> Undefined]
NoStatusDistribution ==
  [t |-> "undefined", available |-> Undefined, stopped |-> Undefined]
NoEncryptionStatus == [t |-> "undefined", encrypted |-> Undefined]

NoFacts ==
  [state_distribution |-> NoStateDistribution,
   status_distribution |-> NoStatusDistribution,
   logging_enabled |-> Undefined,
   total_trails |-> Undefined,
   is_default |-> Undefined,
   encryption_status |-> NoEncryptionStatus]

\* A summary object: resource_count, scan_status and the facts `f`.
MakeSummary(rc, st, f) ==
  [t |-> "object", resource_count |-> rc, scan_status |-> st,
   state_distribution |-> f.state_distribution,
   status_distribution |-> f.status_distribution,
   logging_enabled |-> f.logging_enabled,
   total_trails |-> f.total_trails,
   is_default |-> f.is_default,
   encryption_status |-> f.encryption_status]

\* A payload without a summary, and the null payload.
NoSummary == [MakeSummary(Undefined, Undefined, NoFacts) EXCEPT !.t = "undefined"]
NullData == [t |-> "null", summary |-> NoSummary]
MakeData(summary) == [t |-> "object", summary |-> summary]

(***************************************************************************)
(* dataService.ts helpers                                                  *)
(***************************************************************************)
normalizeScanStatus(status) ==
  IF status.t # "string" THEN "failed"
  ELSE LET normalized == toLowerCase(status.s)
       IN IF normalized \in {"success", "failed", "partial"}
          THEN normalized
          ELSE "failed"

isRecord(value) == value.t = "object"

\* The entry of a number record: kept when typeof val = 'number', else absent.
NumberEntry(val) == IF val.t = "number" THEN val ELSE Undefined

\* asNumberRecord: undefined unless the value is a record with at least one
\* numeric entry; the result keeps the numeric entries only.
asNumberRecord(value) ==
  LET keys == DOMAIN value \ {"t"}
      hasNumericEntries == \E k \in keys : value[k].t = "number"
  IN IF ~isRecord(value) THEN [defined |-> FALSE, rec |-> value]
     ELSE [defined |-> hasNumericEntries,
           rec |-> [k \in DOMAIN value |->
                      IF k \in keys THEN NumberEntry(value[k]) ELSE value[k]]]

\* x ?? 0 on an entry of a number record.
OrZero(val) == IF val.t = "number" THEN val.n ELSE 0

getNumericValue(value) ==
  IF value.t = "number" THEN value.n
  ELSE IF value.t = "string"
       THEN LET parsed == NumberOfString(value.s)
            IN IF parsed.finite THEN parsed.n ELSE 0
       ELSE 0

\* Math.round((a / b) * 100) for b # 0: the nearest integer, ties towards
\* plus infinity.
RoundPercent(a, b) ==
  IF b > 0 THEN (200 * a + b) \div (2 * b)
  ELSE (200 * (0 - a) + (0 - b)) \div (2 * (0 - b))

Max(a, b) == IF a >= b THEN a ELSE b
Min(a, b) == IF a <= b THEN a ELSE b

(***************************************************************************)
(* calculateServiceHealth: the branches of the switch.  Each yields the    *)
(* healthScore and scanStatus the branch leaves, given the status the      *)
(* switch was entered with.                                                *)
(***************************************************************************)

\* CaseEc2 without the penalty for terminated instances.
CaseEc2NoPenalty(summary, resourceCount, scanStatus) ==
  LET stateDistribution == asNumberRecord(summary.state_distribution)
      running == OrZero(stateDistribution.rec.running)
      stopped == OrZero(stateDistribution.rec.stopped)
      ratio == IF resourceCount > 0 THEN RoundPercent(running, resourceCount) ELSE 0
  IN IF stateDistribution.defined
     THEN [healthScore |-> ratio,
           scanStatus |-> IF stopped > 0 THEN "partial" ELSE scanStatus]
     ELSE [healthScore |-> 100, scanStatus |-> scanStatus]

\* CaseEc2 with the terminated count, not the stopped count, deciding the status.
CaseEc2TerminatedPartial(summary, resourceCount, scanStatus) ==
  LET stateDistribution == asNumberRecord(summary.state_distribution)
      running == OrZero(stateDistribution.rec.running)
      terminated == OrZero(stateDistribution.rec.terminated)
      ratio == IF resourceCount > 0 THEN RoundPercent(running, resourceCount) ELSE 0
  IN IF stateDistribution.defined
     THEN [healthScore |-> IF terminated > 0 THEN Max(0, ratio - 20) ELSE ratio,
           scanStatus |-> IF terminated > 0 THEN "partial" ELSE scanStatus]
     ELSE [healthScore |-> 100, scanStatus |-> scanStatus]

CaseEc2(summary, resourceCount, scanStatus) ==
  LET stateDistribution == asNumberRecord(summary.state_distribution)
      running == OrZero(stateDistribution.rec.running)
      stopped == OrZero(stateDistribution.rec.stopped)
      terminated == OrZero(stateDistribution.rec.terminated)
      ratio == IF resourceCount > 0 THEN RoundPercent(running, resourceCount) ELSE 0
  IN IF stateDistribution.defined
     THEN [healthScore |-> IF terminated > 0 THEN Max(0, ratio - 20) ELSE ratio,
           scanStatus |-> IF stopped > 0 THEN "partial" ELSE scanStatus]
     ELSE [healthScore |-> 100, scanStatus |-> scanStatus]


\* CaseRds with Math.floor in place of Math.round.
CaseRdsFloor(summary, resourceCount, scanStatus) ==
  LET statusDistribution == asNumberRecord(summary.status_distribution)
      available == OrZero(statusDistribution.rec.available)
  IN IF statusDistribution.defined
     THEN [healthScore |-> IF resourceCount > 0
                           THEN (100 * available) \div resourceCount ELSE 0,
           scanStatus |-> IF available < resourceCount THEN "partial" ELSE scanStatus]
     ELSE [healthScore |-> 100, scanStatus |-> scanStatus]

CaseRds(summary, resourceCount, scanStatus) ==
  LET statusDistribution == asNumberRecord(summary.status_distribution)
      available == OrZero(statusDistribution.rec.available)
  IN IF statusDistribution.defined
     THEN [healthScore |-> IF resourceCount > 0
                           THEN RoundPercent(available, resourceCount) ELSE 0,
           scanStatus |-> IF available < resourceCount THEN "partial" ELSE scanStatus]
     ELSE [healthScore |-> 100, scanStatus |-> scanStatus]


\* CaseCloudtrail without the guard for totalTrails = 0: the division yields
\* Infinity, which the clamp turns into 100.
CaseCloudtrailNoZeroGuard(summary, resourceCount, scanStatus) ==
  LET loggingEnabled == getNumericValue(summary.logging_enabled)
      totalTrails == getNumericValue(summary.total_trails)
  IN [healthScore |-> IF totalTrails = 0 THEN 100
                      ELSE RoundPercent(loggingEnabled, totalTrails),
      scanStatus |-> IF loggingEnabled < totalTrails THEN "partial" ELSE scanStatus]

CaseCloudtrail(summary, resourceCount, scanStatus) ==
  LET loggingEnabled == getNumericValue(summary.logging_enabled)
      totalTrails == getNumericValue(summary.total_trails)
  IN IF totalTrails = 0
     THEN [healthScore |-> 0, scanStatus |-> "failed"]
     ELSE [healthScore |-> RoundPercent(loggingEnabled, totalTrails),
           scanStatus |-> IF loggingEnabled < totalTrails THEN "partial" ELSE scanStatus]


\* CaseVpc that never reads the flag.
CaseVpcFlagIgnored(summary, resourceCount, scanStatus) ==
  [healthScore |-> 100, scanStatus |-> scanStatus]

CaseVpc(summary, resourceCount, scanStatus) ==
  LET isDefault == summary.is_default
  IN IF isDefault.t = "boolean"
     THEN [healthScore |-> IF isDefault.n = 1 THEN 70 ELSE 100,
           scanStatus |-> IF isDefault.n = 1 THEN "partial" ELSE scanStatus]
     ELSE [healthScore |-> 100, scanStatus |-> scanStatus]


\* CaseS3 reading encrypted without numeric coercion (encrypted ?? 0).
CaseS3NoCoercion(summary, resourceCount, scanStatus) ==
  LET encryptionStatus == summary.encryption_status
      encrypted == OrZero(encryptionStatus.encrypted)
  IN IF isRecord(encryptionStatus)
     THEN [healthScore |-> IF resourceCount > 0
                           THEN RoundPercent(encrypted, resourceCount) ELSE 0,
           scanStatus |-> IF encrypted < resourceCount THEN "partial" ELSE scanStatus]
     ELSE [healthScore |-> 100, scanStatus |-> scanStatus]

CaseS3(summary, resourceCount, scanStatus) ==
  LET encryptionStatus == summary.encryption_status
      encrypted == getNumericValue(encryptionStatus.encrypted)
  IN IF isRecord(encryptionStatus)
     THEN [healthScore |-> IF resourceCount > 0
                           THEN RoundPercent(encrypted, resourceCount) ELSE 0,
           scanStatus |-> IF encrypted < resourceCount THEN "partial" ELSE scanStatus]
     ELSE [healthScore |-> 100, scanStatus |-> scanStatus]


\* CaseDefault scoring a partial scan like a successful one.
CaseDefaultPartialAsSuccess(normalizedStatus, resourceCount, scanStatus) ==
  [healthScore |-> IF resourceCount > 0 THEN 95 ELSE 100, scanStatus |-> scanStatus]

CaseDefault(normalizedStatus, resourceCount, scanStatus) ==
  IF normalizedStatus = "success"
  THEN [healthScore |-> IF resourceCount > 0 THEN 95 ELSE 100, scanStatus |-> scanStatus]
  ELSE [healthScore |-> 75, scanStatus |-> "partial"]

\* switch (serviceName)
SwitchService(serviceName, summary, resourceCount, normalizedStatus, scanStatus) ==
  CASE serviceName = "ec2" -> CaseEc2(summary, resourceCount, scanStatus)
    [] serviceName = "rds" -> CaseRds(summary, resourceCount, scanStatus)
    [] serviceName = "cloudtrail" -> CaseCloudtrail(summary, resourceCount, scanStatus)
    [] serviceName = "vpc" -> CaseVpc(summary, resourceCount, scanStatus)
    [] serviceName = "s3" -> CaseS3(summary, resourceCount, scanStatus)
    [] OTHER -> CaseDefault(normalizedStatus, resourceCount, scanStatus)

\* resourceCount: summary.resource_count when it is a number, else 0.
ResourceCountOf(summary) ==
  IF summary.resource_count.t = "number" THEN summary.resource_count.n ELSE 0


\* Clamp without the upper limit.
ClampLowerOnly(healthScore) == Max(0, healthScore)

\* Math.max(0, Math.min(100, healthScore))
Clamp(healthScore) == Max(0, Min(100, healthScore))


\* GateApplies for an empty service only.
GateOnEmptyOnly(normalizedStatus, resourceCount) == resourceCount = 0

\* The early return for a failed scan or an empty service.
GateApplies(normalizedStatus, resourceCount) ==
  normalizedStatus = "failed" \/ resourceCount = 0


\* GateResult that reports every gated service as failed.
GateResultAlwaysFailed(normalizedStatus, resourceCount) ==
  [healthPercent |-> 0, scanStatus |-> "failed"]

GateResult(normalizedStatus, resourceCount) ==
  [healthPercent |-> IF resourceCount = 0 THEN 100 ELSE 0,
   scanStatus |-> IF resourceCount = 0 THEN "success" ELSE "failed"]

calculateServiceHealth(serviceName, serviceData) ==
  IF serviceData.t = "null" \/ serviceData.summary.t = "undefined"
  THEN [healthPercent |-> 0, scanStatus |-> "failed"]
  ELSE LET summary == serviceData.summary
           resourceCount == ResourceCountOf(summary)
           normalizedStatus == normalizeScanStatus(summary.scan_status)
           scanStatus == IF normalizedStatus = "partial" THEN "partial" ELSE "success"
           branch == SwitchService(serviceName, summary, resourceCount,
                                   normalizedStatus, scanStatus)
       IN IF GateApplies(normalizedStatus, resourceCount)
          THEN GateResult(normalizedStatus, resourceCount)
          ELSE [healthPercent |-> Clamp(branch.healthScore),
                scanStatus |-> branch.scanStatus]

(***************************************************************************)
(* The payloads a call is made with                                        *)
(***************************************************************************)
ServiceNames == {"ec2", "rds", "cloudtrail", "vpc", "s3", "lambda", "EC2"}

\* Values of resource_count and of the numerator of a distribution.
CountValues == {Undefined, Str("2")} \cup {Num(n) : n \in -1..MaxCount}
\* Values of the stopped and terminated entries.
AuxValues == {Undefined, Str("2")} \cup {Num(n) : n \in -1..MaxAux}
\* Values of the facts read through getNumericValue.
NumericValues == {Undefined, Str("2"), Str("abc")} \cup {Num(n) : n \in -1..MaxCount}
\* Values of scan_status.
StatusValues ==
  {Undefined, Str("success"), Str("Success"), Str("failed"), Str("partial"),
   Str("unknown")}

StateDistributions ==
  {NoStateDistribution, [NoStateDistribution EXCEPT !.t = "array"]}
  \cup [t : {"object"}, running : CountValues, stopped : AuxValues,
        terminated : AuxValues, pending : {Undefined}]
  \cup [t : {"object"}, running : {Undefined}, stopped : {Undefined},
        terminated : {Undefined}, pending : {Str("2"), Num(1)}]

StatusDistributions ==
  {NoStatusDistribution, [NoStatusDistribution EXCEPT !.t = "array"]}
  \cup [t : {"object"}, available : CountValues, stopped : {Undefined, Num(1)}]

EncryptionStatuses ==
  {NoEncryptionStatus, [NoEncryptionStatus EXCEPT !.t = "array"]}
  \cup [t : {"object"}, encrypted : NumericValues]

\* A summary that carries a fact of every kind at once.
AllFacts ==
  [state_distribution |->
     [t |-> "object", running |-> Num(1), stopped |-> Num(1),
      terminated |-> Num(1), pending |-> Undefined],
   status_distribution |->
     [t |-> "object", available |-> Num(1), stopped |-> Num(1)],
   logging_enabled |-> Num(1),
   total_trails |-> Num(0),
   is_default |-> Bool(TRUE),
   encryption_status |-> [t |-> "object", encrypted |-> Num(1)]]

\* The service-specific facts served for a service: its own kind, over the
\* whole range of values; none; or every kind at once.
FactsFor(serviceName) ==
  {NoFacts, AllFacts} \cup
  CASE serviceName = "ec2" ->
         {[NoFacts EXCEPT !.state_distribution = d] : d \in StateDistributions}
    [] serviceName = "rds" ->
         {[NoFacts EXCEPT !.status_distribution = d] : d \in StatusDistributions}
    [] serviceName = "cloudtrail" ->
         {[NoFacts EXCEPT !.logging_enabled = l, !.total_trails = n] :
            l \in NumericValues, n \in NumericValues}
    [] serviceName = "vpc" ->
         {[NoFacts EXCEPT !.is_default = b] :
            b \in {Bool(TRUE), Bool(FALSE), Str("true")}}
    [] serviceName = "s3" ->
         {[NoFacts EXCEPT !.encryption_status = e] : e \in EncryptionStatuses}
    [] OTHER -> {}

PayloadsFor(serviceName) ==
  {NullData, MakeData(NoSummary)} \cup
  {MakeData(MakeSummary(rc, st, f)) :
     rc \in CountValues, st \in StatusValues, f \in FactsFor(serviceName)}

\* The result slot before the call returns.
NoResult == [healthPercent |-> 0, scanStatus |-> "none"]

(***************************************************************************)
(* State: one call of calculateServiceHealth                               *)
(***************************************************************************)
VARIABLES serviceName, serviceData, result, pc

(***************************************************************************)
(* State: one call of filterResourcesByRegion, extractResourceArray,       *)
(* extractResourceCount or normalizeServiceData                            *)
(***************************************************************************)
VARIABLES resources, regionCode, rawData, out, xpc

(***************************************************************************)
(* State: the discovery snapshot and one call of getServiceCategories,     *)
(* getRegions and getAccounts on it                                        *)
(***************************************************************************)
VARIABLES discovered, resourceCounts, countFailed, cursor,
          categoriesPromises, settledOrder, categories, totals, rpc

(***************************************************************************)
(* State: two runs of normalizeServiceData and calculateServiceHealth      *)
(***************************************************************************)
VARIABLES runs

(***************************************************************************)
(* State: the Lambda analysis page, from the analyzed payload to what the  *)
(* page and the cards show                                                 *)
(***************************************************************************)
VARIABLES metrics, lambdaDetail, serviceParam, analysisData, rendered, apc

(***************************************************************************)
(* State: the app store and the data requests of its load actions          *)
(***************************************************************************)
VARIABLES store, requests

(***************************************************************************)
(* State: the service grid and its category filter                         *)
(***************************************************************************)
VARIABLES serviceCategories, selectedCategories, memoDeps, shown

(***************************************************************************)
(* State: the sorting of the service detail table                          *)
(***************************************************************************)
VARIABLES tableRows, sortKey, sortDir, filteredRows

(***************************************************************************)
(* State: the display name of a service, from its model to its card        *)
(***************************************************************************)
VARIABLES rawName, modelName, cardName, fpc

healthVars == <<serviceName, serviceData, result, pc>>
extractVars == <<resources, regionCode, rawData, out, xpc>>
rollupVars == <<discovered, resourceCounts, countFailed, cursor,
                categoriesPromises, settledOrder, categories, totals, rpc>>
backendVars == <<healthVars, extractVars, rollupVars, runs>>
lambdaVars == <<metrics, lambdaDetail, serviceParam, analysisData, rendered, apc>>
storeVars == <<store, requests>>
gridVars == <<serviceCategories, selectedCategories, memoDeps, shown>>
sortVars == <<tableRows, sortKey, sortDir, filteredRows>>
nameVars == <<rawName, modelName, cardName, fpc>>
uiVars == <<lambdaVars, storeVars, gridVars, sortVars, nameVars>>
vars == <<healthVars, extractVars, rollupVars, runs, uiVars>>

\* No call of the scorer, or of the extraction functions, is under way.
HealthIdle ==
  /\ serviceName = ""
  /\ serviceData = NullData
  /\ result = NoResult
  /\ pc = "idle"
ExtractIdle ==
  /\ resources = <<>>
  /\ regionCode = Undefined
  /\ rawData = Undefined
  /\ out = [thrown |-> FALSE, value |-> <<>>]
  /\ xpc = "idle"
RollupIdle ==
  /\ discovered = <<>>
  /\ resourceCounts = <<>>
  /\ countFailed = {}
  /\ cursor = 0
  /\ categoriesPromises = <<>>
  /\ settledOrder = <<>>
  /\ categories = <<>>
  /\ totals = [region |-> 0, account |-> 0]
  /\ rpc = "idle"
ScoreIdle == runs = <<>>
BackendIdle == HealthIdle /\ ExtractIdle /\ RollupIdle /\ ScoreIdle
\* The analysis page is not mounted.
LambdaIdle ==
  /\ metrics = <<>>
  /\ lambdaDetail = <<>>
  /\ serviceParam = ""
  /\ analysisData = <<>>
  /\ rendered = <<>>
  /\ apc = "idle"
\* The app store is not created.
StoreIdle ==
  /\ store = <<>>
  /\ requests = <<>>
\* The service grid is not mounted.
GridIdle ==
  /\ serviceCategories = <<>>
  /\ selectedCategories = <<>>
  /\ memoDeps = 0
  /\ shown = ""
\* The service detail page is not mounted.
SortIdle ==
  /\ tableRows = <<>>
  /\ sortKey = JsNull
  /\ sortDir = JsNull
  /\ filteredRows = <<>>
\* No service model is built.
NameIdle ==
  /\ rawName = <<>>
  /\ modelName = <<>>
  /\ cardName = <<>>
  /\ fpc = "idle"
UiIdle == LambdaIdle /\ StoreIdle /\ GridIdle /\ SortIdle /\ NameIdle
\* What an action of one page leaves alone: every other page's state.
exceptLambda == <<backendVars, storeVars, gridVars, sortVars, nameVars>>
exceptStore == <<backendVars, lambdaVars, gridVars, sortVars, nameVars>>
exceptGrid == <<backendVars, lambdaVars, storeVars, sortVars, nameVars>>
exceptSort == <<backendVars, lambdaVars, storeVars, gridVars, nameVars>>
exceptName == <<backendVars, lambdaVars, storeVars, gridVars, sortVars>>

Init ==
  /\ serviceName \in ServiceNames
  /\ serviceData \in PayloadsFor(serviceName)
  /\ result = NoResult
  /\ pc = "call"
  /\ ExtractIdle
  /\ RollupIdle
  /\ ScoreIdle
  /\ UiIdle

\* const { healthPercent, scanStatus } = this.calculateServiceHealth(...)
CalculateServiceHealth ==
  /\ pc = "call"
  /\ result' = calculateServiceHealth(serviceName, serviceData)
  /\ pc' = "done"
  /\ UNCHANGED <<serviceName, serviceData>>
  /\ UNCHANGED <<extractVars, rollupVars, runs, uiVars>>

Next == CalculateServiceHealth

Spec == Init /\ [][Next]_vars

TypeOK ==
  /\ serviceName \in ServiceNames
  /\ pc \in {"call", "done"}
  /\ result.scanStatus \in {"none", "success", "failed", "partial"}

(***************************************************************************)
(* Vocabulary of the properties, read off the payload of the call          *)
(***************************************************************************)
Done == pc = "done"
Summary == serviceData.summary
HasSummary == serviceData.t = "object" /\ Summary.t = "object"
\* resource_count is a number; Total is that number.
HasTotal == HasSummary /\ Summary.resource_count.t = "number"
Total == Summary.resource_count.n
\* The declared scan status, in any letter case.
DeclaredSuccess ==
  HasSummary /\ Summary.scan_status \in {Str("success"), Str("Success"), Str("SUCCESS")}
DeclaredPartial ==
  HasSummary /\ Summary.scan_status \in {Str("partial"), Str("Partial"), Str("PARTIAL")}
DeclaredFailed ==
  HasSummary /\ Summary.scan_status \in {Str("failed"), Str("Failed"), Str("FAILED")}
Dispatched == {"ec2", "rds", "cloudtrail", "vpc", "s3"}
Outcome(h, s) == [healthPercent |-> h, scanStatus |-> s]

\* The count a distribution reports under a key: its number, 0 when absent.
CountOf(entry) == IF entry.t = "number" THEN entry.n ELSE 0
\* The count a coerced fact reports: its number, a numeric string parsed, else 0.
CoercedCountOf(fact) ==
  IF fact.t = "number" THEN fact.n ELSE IF fact = Str("2") THEN 2 ELSE 0

\* A distribution is present when it is a record with a numeric entry.
HasStateDistribution ==
  /\ HasSummary
  /\ Summary.state_distribution.t = "object"
  /\ \E k \in {"running", "stopped", "terminated", "pending"} :
       Summary.state_distribution[k].t = "number"
HasStatusDistribution ==
  /\ HasSummary
  /\ Summary.status_distribution.t = "object"
  /\ \E k \in {"available", "stopped"} : Summary.status_distribution[k].t = "number"
HasEncryptionStatus == HasSummary /\ Summary.encryption_status.t = "object"

Running == CountOf(Summary.state_distribution.running)
Stopped == CountOf(Summary.state_distribution.stopped)
Terminated == CountOf(Summary.state_distribution.terminated)
Available == CountOf(Summary.status_distribution.available)
Encrypted == CoercedCountOf(Summary.encryption_status.encrypted)

\* round(num / den * 100), half up, for den > 0: the integer k with
\* k <= num/den*100 + 1/2 < k + 1.
RoundHalfUp(num, den) ==
  CHOOSE k \in -200..(100 * MaxCount + 200) :
    /\ 2 * den * k <= 200 * num + den
    /\ 200 * num + den < 2 * den * (k + 1)
Floor0(h) == IF h < 0 THEN 0 ELSE h
Clamped(h) == IF h < 0 THEN 0 ELSE IF h > 100 THEN 100 ELSE h

\* The health the state-machine rule prescribes.
Ec2Health ==
  LET ratio == RoundHalfUp(Running, Total)
  IN Clamped(IF Terminated > 0 THEN Floor0(ratio - 20) ELSE ratio)

C2_EmptyServiceIsHealthy ==
  (Done /\ HasTotal /\ Total = 0) => result = Outcome(100, "success")

\* An empty logging service with no trails and a failed scan.
C2_Witness ==
  /\ Done /\ serviceName = "cloudtrail" /\ HasTotal /\ Total = 0
  /\ DeclaredFailed /\ Summary.total_trails = Num(0)
  /\ result = Outcome(100, "success")

(***************************************************************************)
(* C3, as stated: for ec2 with a state distribution and total > 0, health  *)
(* is round(running/total*100), minus 20 floored at 0 when terminated > 0, *)
(* clamped to [0,100].                                                     *)
(***************************************************************************)
C3_Original ==
  (Done /\ serviceName = "ec2" /\ HasStateDistribution /\ HasTotal /\ Total > 0)
    => result.healthPercent = Ec2Health

(***************************************************************************)
(* C3, amended: the same, for a declared scan status of success or partial *)
(* (a failed, unrecognised or missing status is scored 0 before the rule). *)
(***************************************************************************)
C3_Ec2Health ==
  (/\ Done /\ serviceName = "ec2" /\ HasStateDistribution /\ HasTotal /\ Total > 0
   /\ (DeclaredSuccess \/ DeclaredPartial))
    => result.healthPercent = Ec2Health

\* Scenario B: 5 running of 8 with 3 terminated gives 63 - 20 = 43.
C3_Witness ==
  /\ Done /\ serviceName = "ec2" /\ DeclaredSuccess /\ HasTotal /\ Total = 8
  /\ HasStateDistribution /\ Running = 5 /\ Stopped = 0 /\ Terminated = 3
  /\ result = Outcome(43, "success")

(***************************************************************************)
(* C4, as stated: for ec2 with a state distribution the status becomes     *)
(* partial whenever stopped > 0, and a declared success stays success when *)
(* stopped = 0, even if terminated > 0.                                    *)
(***************************************************************************)
C4_Original ==
  (Done /\ serviceName = "ec2" /\ HasStateDistribution)
    => /\ Stopped > 0 => result.scanStatus = "partial"
       /\ (Stopped = 0 /\ DeclaredSuccess) => result.scanStatus = "success"

(***************************************************************************)
(* C4, amended: the same, for a resource_count that is a number other than *)
(* 0 and a declared scan status of success or partial.                     *)
(***************************************************************************)
C4_Ec2Status ==
  (/\ Done /\ serviceName = "ec2" /\ HasStateDistribution
   /\ HasTotal /\ Total # 0 /\ (DeclaredSuccess \/ DeclaredPartial))
    => /\ Stopped > 0 => result.scanStatus = "partial"
       /\ (Stopped = 0 /\ DeclaredSuccess) => result.scanStatus = "success"

\* Scenario A: 8 running and 2 stopped of 10 gives 80 and partial.
C4_Witness ==
  /\ Done /\ serviceName = "ec2" /\ DeclaredSuccess /\ HasTotal /\ Total = 10
  /\ HasStateDistribution /\ Running = 8 /\ Stopped = 2 /\ Terminated = 0
  /\ result = Outcome(80, "partial")

(***************************************************************************)
(* C5, as stated: for cloudtrail, total_trails = 0 gives health 0 and      *)
(* status failed whatever the other fields are, resource_count included.   *)
(***************************************************************************)
C5_Original ==
  (Done /\ serviceName = "cloudtrail" /\ HasSummary /\ Summary.total_trails = Num(0))
    => result = Outcome(0, "failed")

(***************************************************************************)
(* C5, amended: for cloudtrail with a resource_count that is a number      *)
(* other than 0, total_trails = 0 gives health 0 and status failed,        *)
(* whatever logging_enabled and the declared status are.                   *)
(***************************************************************************)
C5_NoTrailsFailed ==
  (/\ Done /\ serviceName = "cloudtrail" /\ HasTotal /\ Total # 0
   /\ Summary.total_trails = Num(0))
    => result = Outcome(0, "failed")

\* Scenario E with a successful scan of 3 resources and logging reported on.
C5_Witness ==
  /\ Done /\ serviceName = "cloudtrail" /\ HasTotal /\ Total = 3
  /\ DeclaredSuccess /\ Summary.total_trails = Num(0)
  /\ Summary.logging_enabled = Num(2)
  /\ result = Outcome(0, "failed")

(***************************************************************************)
(* C6: when the facts a service-specific heuristic requires are missing or *)
(* malformed and resource_count > 0, the service is scored failed with     *)
(* health 0.                                                               *)
(***************************************************************************)
C6_MissingFactsFailed ==
  (/\ Done /\ HasTotal /\ Total > 0
   /\ \/ serviceName = "ec2" /\ ~HasStateDistribution
      \/ serviceName = "rds" /\ ~HasStatusDistribution
      \/ serviceName = "s3" /\ ~HasEncryptionStatus
      \/ serviceName = "vpc" /\ Summary.is_default.t # "boolean")
    => result = Outcome(0, "failed")

(***************************************************************************)
(* C7: a declared scan status of failed with resource_count > 0 gives      *)
(* health 0 and status failed for every service name, whatever the         *)
(* service-specific facts are.                                             *)
(***************************************************************************)
C7_DeclaredFailed ==
  (Done /\ HasTotal /\ Total > 0 /\ DeclaredFailed) => result = Outcome(0, "failed")

\* A failed ec2 scan whose distribution reports every instance running.
C7_Witness ==
  /\ Done /\ serviceName = "ec2" /\ DeclaredFailed /\ HasTotal /\ Total = 4
  /\ HasStateDistribution /\ Running = 4 /\ Stopped = 0 /\ Terminated = 0
  /\ result = Outcome(0, "failed")

(***************************************************************************)
(* C8, as stated: a service name without a dedicated heuristic, with       *)
(* resources present, gets 95/success for a reported status of success and *)
(* 75/partial for any other reported status.                               *)
(***************************************************************************)
C8_Original ==
  (Done /\ serviceName \notin Dispatched /\ HasTotal /\ Total > 0)
    => IF DeclaredSuccess THEN result = Outcome(95, "success")
       ELSE result = Outcome(75, "partial")

(***************************************************************************)
(* C8, amended: ... gets 95/success for a reported status of success,      *)
(* 75/partial for a reported status of partial, and 0/failed for any other *)
(* reported status (failed, unrecognised or missing).                      *)
(***************************************************************************)
C8_DefaultRule ==
  (Done /\ serviceName \notin Dispatched /\ HasTotal /\ Total > 0)
    => IF DeclaredSuccess THEN result = Outcome(95, "success")
       ELSE IF DeclaredPartial THEN result = Outcome(75, "partial")
       ELSE result = Outcome(0, "failed")

\* An unknown service name with a partial scan of 3 resources.
C8_Witness ==
  /\ Done /\ serviceName = "EC2" /\ HasTotal /\ Total = 3 /\ DeclaredPartial
  /\ result = Outcome(75, "partial")

(***************************************************************************)
(* C9, as stated: for rds with a status distribution and total > 0, health *)
(* is round(available/total*100) clamped to [0,100], and the status is     *)
(* partial whenever available < total.                                     *)
(***************************************************************************)
C9_Original ==
  (Done /\ serviceName = "rds" /\ HasStatusDistribution /\ HasTotal /\ Total > 0)
    => /\ result.healthPercent = Clamped(RoundHalfUp(Available, Total))
       /\ Available < Total => result.scanStatus = "partial"

(***************************************************************************)
(* C9, amended: the same, for a declared scan status of success or         *)
(* partial.                                                                *)
(***************************************************************************)
C9_RdsRule ==
  (/\ Done /\ serviceName = "rds" /\ HasStatusDistribution /\ HasTotal /\ Total > 0
   /\ (DeclaredSuccess \/ DeclaredPartial))
    => /\ result.healthPercent = Clamped(RoundHalfUp(Available, Total))
       /\ Available < Total => result.scanStatus = "partial"

\* 5 available of 8: 62.5 rounds up to 63, and the status is partial.
C9_Witness ==
  /\ Done /\ serviceName = "rds" /\ DeclaredSuccess /\ HasTotal /\ Total = 8
  /\ HasStatusDistribution /\ Available = 5
  /\ result = Outcome(63, "partial")

(***************************************************************************)
(* C10, as stated: for s3 with an encryption-status fact and total > 0,    *)
(* health is round(encrypted/total*100) clamped to [0,100], and the status *)
(* is partial if encrypted < total.                                        *)
(***************************************************************************)
C10_Original ==
  (Done /\ serviceName = "s3" /\ HasEncryptionStatus /\ HasTotal /\ Total > 0)
    => /\ result.healthPercent = Clamped(RoundHalfUp(Encrypted, Total))
       /\ Encrypted < Total => result.scanStatus = "partial"

(***************************************************************************)
(* C10, amended: the same, for a declared scan status of success or        *)
(* partial.                                                                *)
(***************************************************************************)
C10_S3Rule ==
  (/\ Done /\ serviceName = "s3" /\ HasEncryptionStatus /\ HasTotal /\ Total > 0
   /\ (DeclaredSuccess \/ DeclaredPartial))
    => /\ result.healthPercent = Clamped(RoundHalfUp(Encrypted, Total))
       /\ Encrypted < Total => result.scanStatus = "partial"

\* 2 encrypted, reported as the string "2", of 8: 25 and partial.
C10_Witness ==
  /\ Done /\ serviceName = "s3" /\ DeclaredSuccess /\ HasTotal /\ Total = 8
  /\ HasEncryptionStatus /\ Summary.encryption_status.encrypted = Str("2")
  /\ result = Outcome(25, "partial")


(***************************************************************************)
(* C11, as stated: for vpc with resources present and a declared status of *)
(* success or partial, the result is 70/partial if the default flag is     *)
(* true, and 100/success otherwise.                                        *)
(***************************************************************************)
C11_Original ==
  (/\ Done /\ serviceName = "vpc" /\ HasTotal /\ Total > 0
   /\ (DeclaredSuccess \/ DeclaredPartial))
    => IF Summary.is_default = Bool(TRUE) THEN result = Outcome(70, "partial")
       ELSE result = Outcome(100, "success")

(***************************************************************************)
(* C11, amended: ... 70/partial if the default flag is true; otherwise     *)
(* health 100 with the declared status: success for a declared success,    *)
(* partial for a declared partial.                                         *)
(***************************************************************************)
C11_VpcRule ==
  (/\ Done /\ serviceName = "vpc" /\ HasTotal /\ Total > 0
   /\ (DeclaredSuccess \/ DeclaredPartial))
    => IF Summary.is_default = Bool(TRUE) THEN result = Outcome(70, "partial")
       ELSE result = Outcome(100, IF DeclaredPartial THEN "partial" ELSE "success")

\* A successful scan of 3 resources in a default network.
C11_Witness ==
  /\ Done /\ serviceName = "vpc" /\ HasTotal /\ Total = 3 /\ DeclaredSuccess
  /\ Summary.is_default = Bool(TRUE)
  /\ result = Outcome(70, "partial")


(***************************************************************************)
(* Summary extractor: filterResourcesByRegion                              *)
(***************************************************************************)
\* A resource record: the three keys a region is read from, and the key of
\* the payload the record is listed under.
MakeResource(region, Region, aws_region, from) ==
  [t |-> "object", region |-> region, Region |-> Region,
   aws_region |-> aws_region, from |-> from]

\* How a call ends: it returns a value, or a TypeError propagates out of it.
Returned(value) == [thrown |-> FALSE, value |-> value]
TypeError(value) == [thrown |-> TRUE, value |-> value]

\* resource['region'] on an element that is null: reading a property of null
\* throws.  Every other element (a record) is read without error.
PropertyReadThrows(resource) == resource.t = "null"

\* a ?? b
Coalesce(a, b) == IF a.t \in {"undefined", "null"} THEN b ELSE a

\* resource['region'] ?? resource['Region'] ?? resource['aws_region']
RegionOf(resource) ==
  Coalesce(Coalesce(resource.region, resource.Region), resource.aws_region)

\* The predicate of the filter: typeof region === 'string' && region === regionCode
MatchesRegion(resource, code) ==
  LET region == RegionOf(resource)
  IN region.t = "string" /\ region = code

\* !regionCode for an optional string.
NoRegionCode(code) == code.t \in {"undefined", "null"} \/ code = Str("")

\* filterResourcesByRegion that returns the filtered list even when it is empty.
filterWithoutFallback(list, code) ==
  LET Test(resource) == MatchesRegion(resource, code)
  IN IF NoRegionCode(code) \/ Len(list) = 0 THEN Returned(list)
     ELSE IF \E i \in 1..Len(list) : PropertyReadThrows(list[i])
          THEN TypeError(<<>>)
          ELSE Returned(SelectSeq(list, Test))

filterResourcesByRegion(list, code) ==
  LET Test(resource) == MatchesRegion(resource, code)
  IN IF NoRegionCode(code) \/ Len(list) = 0 THEN Returned(list)
     ELSE IF \E i \in 1..Len(list) : PropertyReadThrows(list[i])
          THEN TypeError(<<>>)
          ELSE LET filtered == SelectSeq(list, Test)
               IN IF Len(filtered) > 0 THEN Returned(filtered)
                  ELSE Returned(list)

\* The records and region codes a call is made with.
FilterResources ==
  {MakeResource(r, R, a, "") :
     r \in {Undefined, JsNull, Str("a"), Str("b"), Num(1)},
     R \in {Undefined, Str("a")},
     a \in {Undefined, Str("a")}}
FilterLists == UNION {[1..n -> FilterResources] : n \in 0..MaxLen}
RegionCodes == {Undefined, Str(""), Str("a"), Str("b")}

InitFilter ==
  /\ HealthIdle
  /\ RollupIdle
  /\ ScoreIdle
  /\ UiIdle
  /\ resources \in FilterLists
  /\ regionCode \in RegionCodes
  /\ rawData = Undefined
  /\ out = Returned(<<>>)
  /\ xpc = "filter"

FilterResourcesByRegion ==
  /\ xpc = "filter"
  /\ out' = filterResourcesByRegion(resources, regionCode)
  /\ xpc' = "done"
  /\ UNCHANGED <<resources, regionCode, rawData>>
  /\ UNCHANGED <<healthVars, rollupVars, runs, uiVars>>

NextFilter == FilterResourcesByRegion

SpecFilter == InitFilter /\ [][NextFilter]_vars

\* The positions of the records whose region field equals the code.
MatchingPositions ==
  {i \in 1..Len(resources) :
     LET r == resources[i]
         field == IF r.region.t \notin {"undefined", "null"} THEN r.region
                  ELSE IF r.Region.t \notin {"undefined", "null"} THEN r.Region
                  ELSE r.aws_region
     IN field.t = "string" /\ field.s = regionCode.s}
RegionGiven == regionCode.t = "string" /\ regionCode.s # ""
\* `list` holds exactly the records at `positions`, in their original order.
IsSelection(list, positions) ==
  /\ Len(list) = Cardinality(positions)
  /\ \E f \in [1..Len(list) -> positions] :
       /\ \A i \in 1..Len(list) : list[i] = resources[f[i]]
       /\ \A i, j \in 1..Len(list) : i < j => f[i] < f[j]

(***************************************************************************)
(* C12: for every non-empty list and region code, filterResourcesByRegion  *)
(* returns exactly the records whose region field equals the code, in      *)
(* their original order, when at least one matches, and the full list when *)
(* none matches; with no region given the list is returned unchanged.      *)
(***************************************************************************)
C12_RegionFilter ==
  (xpc = "done" /\ Len(resources) > 0)
    => IF RegionGiven /\ MatchingPositions # {}
       THEN ~out.thrown /\ IsSelection(out.value, MatchingPositions)
       ELSE out = Returned(resources)

\* A middle record of another region is dropped and the order is kept.
C12_Witness ==
  /\ xpc = "done" /\ regionCode = Str("a") /\ Len(resources) = 3
  /\ MatchingPositions = {1, 3}
  /\ out = Returned(<<resources[1], resources[3]>>)


(***************************************************************************)
(* Summary extractor: extractResourceArray, extractResourceCount,          *)
(* normalizeServiceData                                                    *)
(***************************************************************************)
\* Raw JSON: an array, or a record whose fields keep their insertion order
\* (the order Object.entries visits them in).
ArrayValue(items) == [t |-> "array", items |-> items]
Entry(key, value) == [key |-> key, value |-> value]
ObjectValue(entries) == [t |-> "object", entries |-> entries]

isArray(value) == value.t = "array"

HasKey(data, key) == \E i \in 1..Len(data.entries) : data.entries[i].key = key

\* data[key]: undefined when the record has no such field.
Get(data, key) ==
  IF HasKey(data, key)
  THEN data.entries[CHOOSE i \in 1..Len(data.entries) : data.entries[i].key = key].value
  ELSE Undefined

\* summary?.key
GetOptional(data, key) ==
  IF data.t = "undefined" THEN Undefined ELSE Get(data, key)

preferredArrayKeys ==
  << "buckets", "instances", "clusters", "functions", "volumes",
     "snapshots", "repositories", "vpcs", "subnets", "security_groups",
     "db_instances", "tables", "distributions", "load_balancers" >>

\* The keys the last loop of extractResourceArray skips.
SkippedKeys == {"tags", "metadata", "summary"}

First(S) == CHOOSE i \in S : \A j \in S : i <= j

\* extractResourceArray whose last loop takes any array-valued field.
extractResourceArrayNoSkip(data, code) ==
  IF ~isRecord(data) THEN Returned(<<>>)
  ELSE IF isArray(Get(data, "resources"))
       THEN filterResourcesByRegion(Get(data, "resources").items, code)
       ELSE LET preferred == {i \in 1..Len(preferredArrayKeys) :
                                isArray(Get(data, preferredArrayKeys[i]))}
                others == {i \in 1..Len(data.entries) :
                             isArray(data.entries[i].value)}
            IN IF preferred # {}
               THEN filterResourcesByRegion(
                      Get(data, preferredArrayKeys[First(preferred)]).items, code)
               ELSE IF others # {}
                    THEN filterResourcesByRegion(
                           data.entries[First(others)].value.items, code)
                    ELSE Returned(<<>>)

extractResourceArray(data, code) ==
  IF ~isRecord(data) THEN Returned(<<>>)
  ELSE IF isArray(Get(data, "resources"))
       THEN filterResourcesByRegion(Get(data, "resources").items, code)
       ELSE LET preferred == {i \in 1..Len(preferredArrayKeys) :
                                isArray(Get(data, preferredArrayKeys[i]))}
                others == {i \in 1..Len(data.entries) :
                             /\ data.entries[i].key \notin SkippedKeys
                             /\ isArray(data.entries[i].value)}
            IN IF preferred # {}
               THEN filterResourcesByRegion(
                      Get(data, preferredArrayKeys[First(preferred)]).items, code)
               ELSE IF others # {}
                    THEN filterResourcesByRegion(
                           data.entries[First(others)].value.items, code)
                    ELSE Returned(<<>>)

\* summary?.resource_count ?? summary?.total_resources, through getNumericValue
summaryCountOf(data) ==
  LET summary == IF isRecord(Get(data, "summary")) THEN Get(data, "summary")
                 ELSE Undefined
  IN getNumericValue(Coalesce(GetOptional(summary, "resource_count"),
                              GetOptional(summary, "total_resources")))

extractResourceCount(data, code) ==
  IF ~isRecord(data) THEN Returned(0)
  ELSE IF summaryCountOf(data) > 0 THEN Returned(summaryCountOf(data))
       ELSE LET array == extractResourceArray(data, code)
            IN IF array.thrown THEN TypeError(0) ELSE Returned(Len(array.value))


\* The built record with a scan status derived from the clock.
BuiltDetailClocked(raw, accountName, code, name, now, list, count) ==
  ObjectValue(<<
    Entry("schema_version", Str("1.0.0")),
    Entry("generated_at", Str(now)),
    Entry("service", ObjectValue(<<Entry("service_name", Str(name)),
                                   Entry("region", code),
                                   Entry("profile", Str(accountName))>>)),
    Entry("summary", ObjectValue(<<Entry("resource_count", Num(count)),
                                   Entry("scan_status",
                                         Str(IF now = "T1" THEN "success"
                                             ELSE "partial"))>>)),
    Entry("resources", ArrayValue(list)) >>)

\* The record normalizeServiceData builds around the inferred list and count.
BuiltDetail(raw, accountName, code, name, now, list, count) ==
  ObjectValue(<<
    Entry("schema_version",
          IF isRecord(raw) /\ Get(raw, "schema_version").t = "string"
          THEN Get(raw, "schema_version") ELSE Str("1.0.0")),
    Entry("generated_at",
          IF isRecord(raw) /\ Get(raw, "generated_at").t = "string"
          THEN Get(raw, "generated_at") ELSE Str(now)),
    Entry("service", ObjectValue(<<Entry("service_name", Str(name)),
                                   Entry("region", code),
                                   Entry("profile", Str(accountName))>>)),
    Entry("summary", ObjectValue(<<Entry("resource_count", Num(count)),
                                   Entry("scan_status", Str("success"))>>)),
    Entry("resources", ArrayValue(list)) >>)

\* `now` is what new Date().toISOString() reads at the call.
normalizeServiceData(raw, accountName, code, name, now) ==
  IF isRecord(raw) /\ isArray(Get(raw, "resources")) /\ isRecord(Get(raw, "summary"))
  THEN Returned(raw)
  ELSE LET array == extractResourceArray(raw, code)
           count == extractResourceCount(raw, code)
       IN IF array.thrown \/ count.thrown THEN TypeError(Undefined)
          ELSE Returned(BuiltDetail(raw, accountName, code, name, now,
                                    array.value, count.value))

\* The payloads a call is made with.
ExtractKeys ==
  {"resources", "instances", "functions", "items", "data",
   "tags", "metadata", "summary"}
ResourceUnder(key, region) == MakeResource(Str(region), Undefined, Undefined, key)
ArrayValuesFor(key) ==
  {ArrayValue(<<>>),
   ArrayValue(<<ResourceUnder(key, "a"), ResourceUnder(key, "b")>>),
   ArrayValue(<<JsNull>>)}
SummaryCounts ==
  {Undefined, JsNull, Num(0), Num(0 - 1), Num(2), Str("2"), Str("many")}
SummaryRecord(resource_count, total_resources) ==
  ObjectValue(
    (IF resource_count = Undefined THEN <<>>
     ELSE <<Entry("resource_count", resource_count)>>)
    \o (IF total_resources = Undefined THEN <<>>
        ELSE <<Entry("total_resources", total_resources)>>))
SummaryValues ==
  {SummaryRecord(rc, tr) : rc \in SummaryCounts, tr \in {Undefined, Num(3)}}
ValuesFor(key) ==
  IF key = "summary"
  THEN SummaryValues \cup {ArrayValue(<<ResourceUnder(key, "a")>>), Str("x")}
  ELSE ArrayValuesFor(key) \cup {Str("x")}
KeyOrders ==
  {ks \in UNION {[1..n -> ExtractKeys] : n \in 0..MaxFields} :
     \A i, j \in 1..Len(ks) : i # j => ks[i] # ks[j]}
RECURSIVE EntriesFor(_)
EntriesFor(ks) ==
  IF ks = <<>> THEN {<<>>}
  ELSE {<<Entry(Head(ks), v)>> \o rest :
          v \in ValuesFor(Head(ks)), rest \in EntriesFor(Tail(ks))}
\* The payloads that are not records: null, scalars, an array.
OtherPayloads ==
  {JsNull, Num(5), Str("x"), ArrayValue(<<ResourceUnder("", "a")>>)}
ExtractRegionCodes == {Undefined, Str("a")}
Clock == {"T1", "T2"}

InitExtract ==
  /\ HealthIdle
  /\ RollupIdle
  /\ ScoreIdle
  /\ UiIdle
  /\ resources = <<>>
  /\ regionCode \in ExtractRegionCodes
  /\ \/ rawData \in OtherPayloads
     \/ \E ks \in KeyOrders : \E es \in EntriesFor(ks) : rawData = ObjectValue(es)
  /\ out = Returned(<<>>)
  /\ xpc = "call"

ExtractResourceArray ==
  /\ xpc = "call"
  /\ out' = extractResourceArray(rawData, regionCode)
  /\ xpc' = "array"
  /\ UNCHANGED <<resources, regionCode, rawData>>
  /\ UNCHANGED <<healthVars, rollupVars, runs, uiVars>>

ExtractResourceCount ==
  /\ xpc = "call"
  /\ out' = extractResourceCount(rawData, regionCode)
  /\ xpc' = "count"
  /\ UNCHANGED <<resources, regionCode, rawData>>
  /\ UNCHANGED <<healthVars, rollupVars, runs, uiVars>>

\* regionCode is a string at this call (dataService.ts:482).
NormalizeServiceData ==
  /\ xpc = "call"
  /\ regionCode.t = "string"
  /\ \E now \in Clock :
       out' = normalizeServiceData(rawData, "prod", regionCode, "lambda", now)
  /\ xpc' = "normalized"
  /\ UNCHANGED <<resources, regionCode, rawData>>
  /\ UNCHANGED <<healthVars, rollupVars, runs, uiVars>>

NextExtract ==
  \/ ExtractResourceArray
  \/ ExtractResourceCount
  \/ NormalizeServiceData

SpecExtract == InitExtract /\ [][NextExtract]_vars


\* Claim vocabulary for the extractor.
ArrayUnder(key) == HasKey(rawData, key) /\ Get(rawData, key).t = "array"
ItemsUnder(key) == Get(rawData, key).items
PreferredRank(key) ==
  CHOOSE i \in 1..Len(preferredArrayKeys) : preferredArrayKeys[i] = key
IsPreferred(key) == \E i \in 1..Len(preferredArrayKeys) : preferredArrayKeys[i] = key
FieldKeys == {rawData.entries[i].key : i \in 1..Len(rawData.entries)}
PositionOf(key) ==
  CHOOSE i \in 1..Len(rawData.entries) : rawData.entries[i].key = key
\* The key whose array is the record source, "" when there is none.
SourceKey ==
  IF ArrayUnder("resources") THEN "resources"
  ELSE IF \E k \in FieldKeys : IsPreferred(k) /\ ArrayUnder(k)
       THEN CHOOSE k \in FieldKeys :
              /\ IsPreferred(k) /\ ArrayUnder(k)
              /\ \A k2 \in FieldKeys :
                   (IsPreferred(k2) /\ ArrayUnder(k2))
                     => PreferredRank(k) <= PreferredRank(k2)
       ELSE IF \E k \in FieldKeys \ {"tags", "metadata", "summary"} : ArrayUnder(k)
            THEN CHOOSE k \in FieldKeys \ {"tags", "metadata", "summary"} :
                   /\ ArrayUnder(k)
                   /\ \A k2 \in FieldKeys \ {"tags", "metadata", "summary"} :
                        ArrayUnder(k2) => PositionOf(k) <= PositionOf(k2)
            ELSE ""

(***************************************************************************)
(* C13: extractResourceArray selects the record source by strict priority: *)
(* the `resources` array if it exists (even if empty); otherwise the first *)
(* array under the known collection keys, in list order; otherwise the     *)
(* first array-valued field whose key is not tags, metadata or summary;    *)
(* otherwise the empty list.  The region filter is applied to that source. *)
(***************************************************************************)
C13_StrictPriority ==
  (xpc = "array" /\ isRecord(rawData))
    => IF SourceKey = "" THEN out = Returned(<<>>)
       ELSE out = filterResourcesByRegion(ItemsUnder(SourceKey), regionCode)

\* A known collection key listed earlier wins over one inserted earlier.
C13_Witness ==
  /\ xpc = "array" /\ isRecord(rawData) /\ Len(rawData.entries) = 2
  /\ rawData.entries[1].key = "functions" /\ rawData.entries[2].key = "instances"
  /\ ArrayUnder("functions") /\ Len(ItemsUnder("functions")) = 2
  /\ ~out.thrown /\ Len(out.value) > 0
  /\ \A i \in 1..Len(out.value) : out.value[i].from = "instances"

NoPositiveSummaryCount ==
  isRecord(rawData) =>
    \/ ~HasKey(rawData, "summary")
    \/ Get(rawData, "summary").t # "object"
    \/ LET s == Get(rawData, "summary")
           c == IF HasKey(s, "resource_count") /\ Get(s, "resource_count").t # "null"
                THEN Get(s, "resource_count") ELSE Get(s, "total_resources")
       IN ~(c.t = "number" /\ c.n > 0) /\ ~(c.t = "string" /\ c.s = "2")
NoResourceArray == isRecord(rawData) => SourceKey = ""

(***************************************************************************)
(* C14: extraction never raises and never yields a negative count: for     *)
(* every payload extractResourceCount returns a value >= 0, and a payload  *)
(* with no positive summary count and no resource array yields count 0 and *)
(* an empty record list.                                                   *)
(***************************************************************************)
C14_NeverRaises ==
  /\ xpc = "count" => (~out.thrown /\ out.value >= 0)
  /\ (NoPositiveSummaryCount /\ NoResourceArray)
       => /\ xpc = "count" => out = Returned(0)
          /\ xpc = "array" => out = Returned(<<>>)


(***************************************************************************)
(* Rollup aggregator: the typed view of a normalized payload               *)
(***************************************************************************)
\* A field read as a scalar: a nested array or object keeps its type only.
AsScalar(value) ==
  IF value.t \in {"object", "array"} THEN [t |-> value.t, n |-> 0, s |-> ""]
  ELSE value
FieldOf(value, key) == IF value.t = "object" THEN AsScalar(Get(value, key)) ELSE Undefined
AsStateDistribution(value) ==
  [t |-> value.t, running |-> FieldOf(value, "running"),
   stopped |-> FieldOf(value, "stopped"),
   terminated |-> FieldOf(value, "terminated"),
   pending |-> FieldOf(value, "pending")]
AsStatusDistribution(value) ==
  [t |-> value.t, available |-> FieldOf(value, "available"),
   stopped |-> FieldOf(value, "stopped")]
AsEncryptionStatus(value) ==
  [t |-> value.t, encrypted |-> FieldOf(value, "encrypted")]
AsSummary(value) ==
  IF value.t # "object" THEN [NoSummary EXCEPT !.t = value.t]
  ELSE MakeSummary(AsScalar(Get(value, "resource_count")),
                   AsScalar(Get(value, "scan_status")),
                   [state_distribution |->
                      AsStateDistribution(Get(value, "state_distribution")),
                    status_distribution |->
                      AsStatusDistribution(Get(value, "status_distribution")),
                    logging_enabled |-> AsScalar(Get(value, "logging_enabled")),
                    total_trails |-> AsScalar(Get(value, "total_trails")),
                    is_default |-> AsScalar(Get(value, "is_default")),
                    encryption_status |->
                      AsEncryptionStatus(Get(value, "encryption_status"))])
\* rawData as unknown as BackendServiceDetail: the fields the scorer reads.
AsDetail(value) == MakeData(AsSummary(Get(value, "summary")))

(***************************************************************************)
(* Rollup aggregator: fetchAllResourceCounts, getServiceCategories,        *)
(* createServiceModelWithData, getRegions, getAccounts                     *)
(***************************************************************************)
\* The categories visited in the order the discovered map lists them.
categoryOrderAsDiscovered == [i \in 1..Len(discovered) |-> discovered[i].key]

categoryOrder ==
  << "compute", "database", "general", "storage", "networking",
     "integration", "cost_management", "security", "monitoring",
     "devops_tools", "analytics", "migration_transfer",
     "management_governance", "ai_ml" >>

\* The account and region the calls are made for.
AccountName == "prod"
RegionCode == Str("a")

\* services[categoryName] || []
NamesOf(services, categoryName) ==
  IF \E i \in 1..Len(services) : services[i].key = categoryName
  THEN services[CHOOSE i \in 1..Len(services) : services[i].key = categoryName].names
  ELSE <<>>

\* (resourceCounts[categoryName] || {})[serviceName] || 0
countFor(counts, categoryName, name) ==
  LET hits == {i \in 1..Len(counts) :
                 counts[i].category = categoryName /\ counts[i].serviceName = name}
  IN IF hits = {} THEN 0 ELSE counts[CHOOSE i \in hits : TRUE].count

RECURSIVE SumSeq(_)
SumSeq(numbers) ==
  IF numbers = <<>> THEN 0 ELSE Head(numbers) + SumSeq(Tail(numbers))

\* The (category, service) pairs in the order fetchAllResourceCounts visits them.
RECURSIVE Pairs(_)
Pairs(services) ==
  IF services = <<>> THEN <<>>
  ELSE [j \in 1..Len(Head(services).names) |->
          [category |-> Head(services).key,
           serviceName |-> Head(services).names[j]]]
       \o Pairs(Tail(services))

\* What a fetch of a service's data ends in.
Response(kind, body) == [kind |-> kind, body |-> body]

\* The count fetchAllResourceCounts stores for a response, and whether
\* obtaining the data failed (the else branch or the catch).
countFailure(response, name) ==
  IF response.kind # "ok" THEN TRUE
  ELSE LET detail == normalizeServiceData(response.body, AccountName,
                                          RegionCode, name, "T1")
       IN detail.thrown \/ extractResourceCount(detail.value, RegionCode).thrown
countFrom(response, name) ==
  IF countFailure(response, name) THEN 0
  ELSE extractResourceCount(
         normalizeServiceData(response.body, AccountName, RegionCode, name,
                              "T1").value,
         RegionCode).value


\* The filter that keeps a category's first service whatever its count.
servicesWithFirstKept(names, counts, categoryName) ==
  LET Test(name) == countFor(counts, categoryName, name) > 0 \/ name = names[1]
  IN SelectSeq(names, Test)

\* serviceNames.filter(serviceName => (categoryResourceCounts[serviceName] || 0) > 0)
servicesWithResources(names, counts, categoryName) ==
  LET Test(name) == countFor(counts, categoryName, name) > 0
  IN SelectSeq(names, Test)

\* An AWSService: the fields computed from the data (the display strings and
\* lastUpdated are left out).
NoModel ==
  [serviceName |-> "", categoryKey |-> "", resourceCount |-> 0,
   healthPercent |-> 0, status |-> "", scanStatus |-> "none"]

\* The promise of one createServiceModelWithData call.
PendingService(name, count) ==
  [serviceName |-> name, resourceCount |-> count, pc |-> "fetching",
   data |-> NullData, value |-> NoModel]

\* What the callback of categoryOrder.map has done when it first awaits:
\* null on an empty category, else the total and the started service calls.
CategoryPromise(categoryName, services, counts) ==
  LET serviceNames == NamesOf(services, categoryName)
      withResources == servicesWithResources(serviceNames, counts, categoryName)
      countOf(name) == countFor(counts, categoryName, name)
  IN IF Len(serviceNames) = 0 \/ Len(withResources) = 0
     THEN [key |-> categoryName, null |-> TRUE, totalResources |-> 0,
           services |-> <<>>]
     ELSE [key |-> categoryName, null |-> FALSE,
           totalResources |->
             SumSeq([j \in 1..Len(withResources) |-> countOf(withResources[j])]),
           services |->
             [j \in 1..Len(withResources) |->
                PendingService(withResources[j], countOf(withResources[j]))]]

\* normalizeServiceData inside the try block of createServiceModelWithData:
\* serviceData stays null when it throws.
normalizedOrNull(raw, name, now) ==
  LET detail == normalizeServiceData(raw, AccountName, RegionCode, name, now)
  IN IF detail.thrown THEN JsNull ELSE detail.value

\* serviceData as calculateServiceHealth receives it.
typedDetail(detail) == IF detail.t = "null" THEN NullData ELSE AsDetail(detail)

\* serviceData after the try block of createServiceModelWithData.
serviceDataFrom(response, name, now) ==
  IF response.kind # "ok" THEN NullData
  ELSE typedDetail(normalizedOrNull(response.body, name, now))

\* The object createServiceModelWithData returns.
createServiceModel(name, category, resourceCount, data) ==
  LET health == calculateServiceHealth(name, data)
  IN [serviceName |-> name, categoryKey |-> category,
      resourceCount |-> resourceCount,
      healthPercent |-> health.healthPercent,
      status |-> IF health.healthPercent >= 90 THEN "healthy"
                 ELSE IF health.healthPercent >= 70 THEN "warning"
                 ELSE "critical",
      scanStatus |-> health.scanStatus]

\* Promise.all that lists the values in the order the promises settled.
PromiseAllAsSettled(promises, order) ==
  [k \in 1..Len(order) |-> promises[order[k]].value]

\* Promise.all: the values in the order of the promises, whatever the order
\* they settled in.
PromiseAll(promises, order) ==
  [i \in 1..Len(promises) |-> promises[i].value]

\* The order the service calls of category `ci` settled in.
ServiceSettleOrder(settled, ci) ==
  LET Mine(event) == event[1] = ci
      mine == SelectSeq(settled, Mine)
  IN [k \in 1..Len(mine) |-> mine[k][2]]

\* The order the category promises resolved in: the null ones at once, the
\* others when their last service call settled.
CategorySettleOrder(promises, settled) ==
  LET Null(i) == promises[i].null
      IsLast(k) == \A k2 \in (k + 1)..Len(settled) : settled[k2][1] # settled[k][1]
      indices == [i \in 1..Len(promises) |-> i]
      events == [k \in 1..Len(settled) |-> k]
      last == SelectSeq(events, IsLast)
  IN SelectSeq(indices, Null) \o [k \in 1..Len(last) |-> settled[last[k]][1]]

\* The value a category promise resolves to.
CategoryValue(promise, order) ==
  [value |->
     [key |-> promise.key, null |-> promise.null,
      services |-> PromiseAll(promise.services, order),
      totalResources |-> promise.totalResources]]

\* (await Promise.all(categoriesPromises)).filter(Boolean)
categoriesFrom(promises, settled) ==
  LET values == [i \in 1..Len(promises) |->
                   CategoryValue(promises[i], ServiceSettleOrder(settled, i))]
      results == PromiseAll(values, CategorySettleOrder(promises, settled))
      NotNull(category) == ~category.null
  IN SelectSeq(results, NotNull)

\* getRegions: the sum of every count stored for the region.
regionTotal(counts) == SumSeq([i \in 1..Len(counts) |-> counts[i].count])

\* getAccounts: the sum over the regions of the account (here the one region).
accountTotal(counts) == SumSeq(<<regionTotal(counts)>>)


\* The discovered service maps: the services of each category, and the
\* categories in any key order, followed by "general".  "containers" is a
\* category outside categoryOrder; "general" lists ec2, which
\* fetchAllResourceCounts skips.
DiscoveredKeys == {"compute", "storage", "containers"}
Catalog(key) ==
  CASE key = "compute" -> <<"ec2", "eks">>
    [] key = "storage" -> <<"s3">>
    [] key = "general" -> <<"ec2">>
    [] key = "containers" -> <<"ecs">>
ServiceMaps ==
  {[i \in 1..Len(ks) |-> [key |-> ks[i], names |-> Catalog(ks[i])]]
     \o <<[key |-> "general", names |-> Catalog("general")]>> :
     ks \in {s \in [1..Cardinality(DiscoveredKeys) -> DiscoveredKeys] :
               \A i, j \in 1..Len(s) : i # j => s[i] # s[j]}}

\* The bodies the data endpoint answers with.
FullBody ==
  ObjectValue(<<
    Entry("generated_at", Str("T0")),
    Entry("resources", ArrayValue(<<>>)),
    Entry("summary", ObjectValue(<<
      Entry("resource_count", Num(2)),
      Entry("scan_status", Str("partial")),
      Entry("state_distribution",
            ObjectValue(<<Entry("running", Num(1)), Entry("stopped", Num(1))>>)),
      Entry("encryption_status", ObjectValue(<<Entry("encrypted", Num(1))>>)) >>)) >>)
ListBody ==
  ObjectValue(<<Entry("instances", ArrayValue(<<ResourceUnder("instances", "a")>>))>>)
EmptyBody == ObjectValue(<<>>)
NullElementBody == ObjectValue(<<Entry("resources", ArrayValue(<<JsNull>>))>>)
CountBodies == {FullBody, ListBody, EmptyBody, NullElementBody}
DetailBodies == {FullBody, NullElementBody}

\* fetch rejects, answers with a non-OK status, or answers OK with a body
\* that response.json() rejects or parses.
FailedResponses ==
  {Response("error", Undefined), Response("notok", Undefined),
   Response("unparsable", Undefined)}
CountResponses == FailedResponses \cup {Response("ok", body) : body \in CountBodies}
DetailResponses ==
  {Response("unparsable", Undefined)}
    \cup {Response("ok", body) : body \in DetailBodies}

InitRollup ==
  /\ HealthIdle
  /\ ExtractIdle
  /\ ScoreIdle
  /\ UiIdle
  /\ discovered \in ServiceMaps
  /\ resourceCounts = <<>>
  /\ countFailed = {}
  /\ cursor = 1
  /\ categoriesPromises = <<>>
  /\ settledOrder = <<>>
  /\ categories = <<>>
  /\ totals = [region |-> 0, account |-> 0]
  /\ rpc = "discovery"

\* simulateFileSystemRead: the discovery request fails and the fallback
\* runs with no account, so without services and counts.
DiscoveryFails ==
  /\ rpc = "discovery"
  /\ discovered' = <<>>
  /\ rpc' = "snapshot"
  /\ UNCHANGED <<resourceCounts, countFailed, cursor, categoriesPromises,
                 settledOrder, categories, totals>>
  /\ UNCHANGED <<healthVars, extractVars, runs, uiVars>>

DiscoverySucceeds ==
  /\ rpc = "discovery"
  /\ rpc' = "counting"
  /\ UNCHANGED <<discovered, resourceCounts, countFailed, cursor,
                 categoriesPromises, settledOrder, categories, totals>>
  /\ UNCHANGED <<healthVars, extractVars, runs, uiVars>>

\* One iteration of the innermost loop of fetchAllResourceCounts.
FetchResourceCount ==
  /\ rpc = "counting"
  /\ LET pair == Pairs(discovered)[cursor]
     IN IF pair.category = "general" /\ pair.serviceName = "ec2"
        THEN UNCHANGED <<resourceCounts, countFailed>>
        ELSE \E response \in CountResponses :
               /\ resourceCounts' =
                    Append(resourceCounts,
                           [category |-> pair.category,
                            serviceName |-> pair.serviceName,
                            count |-> countFrom(response, pair.serviceName)])
               /\ countFailed' =
                    IF countFailure(response, pair.serviceName)
                    THEN countFailed \cup {<<pair.category, pair.serviceName>>}
                    ELSE countFailed
  /\ cursor' = cursor + 1
  /\ rpc' = IF cursor = Len(Pairs(discovered)) THEN "snapshot" ELSE "counting"
  /\ UNCHANGED <<discovered, categoriesPromises, settledOrder, categories, totals>>
  /\ UNCHANGED <<healthVars, extractVars, runs, uiVars>>

\* getServiceCategories up to its await: every category callback has run
\* to its own await, so every service call has issued its fetch.
StartServiceCategories ==
  /\ rpc = "snapshot"
  /\ categoriesPromises' =
       [i \in 1..Len(categoryOrder) |->
          CategoryPromise(categoryOrder[i], discovered, resourceCounts)]
  /\ rpc' = "evaluating"
  /\ UNCHANGED <<discovered, resourceCounts, countFailed, cursor,
                 settledOrder, categories, totals>>
  /\ UNCHANGED <<healthVars, extractVars, runs, uiVars>>


\* The service call `si` of category `ci` ends with `response`.
Settle(ci, si, response, now) ==
  LET promise == categoriesPromises[ci].services[si]
      data == serviceDataFrom(response, promise.serviceName, now)
  IN /\ categoriesPromises' =
          [categoriesPromises EXCEPT
             ![ci].services[si] =
               [promise EXCEPT
                  !.pc = "done",
                  !.data = data,
                  !.value = createServiceModel(promise.serviceName,
                                               categoriesPromises[ci].key,
                                               promise.resourceCount, data)]]
     /\ settledOrder' = Append(settledOrder, <<ci, si>>)

\* The fetch of a service call settles: it rejects or is not OK and the call
\* ends with serviceData null, or it is OK and the call awaits response.json().
FetchSettles ==
  /\ rpc = "evaluating"
  /\ \E ci \in 1..Len(categoriesPromises) :
       \E si \in 1..Len(categoriesPromises[ci].services) :
         /\ categoriesPromises[ci].services[si].pc = "fetching"
         /\ \/ \E kind \in {"error", "notok"} :
                 Settle(ci, si, Response(kind, Undefined), "T1")
            \/ /\ categoriesPromises' =
                    [categoriesPromises EXCEPT ![ci].services[si].pc = "parsing"]
               /\ UNCHANGED settledOrder
  /\ UNCHANGED <<discovered, resourceCounts, countFailed, cursor, categories,
                 totals, rpc>>
  /\ UNCHANGED <<healthVars, extractVars, runs, uiVars>>

\* response.json() of a service call settles: the call normalizes and scores
\* the body, or catches the rejection, and returns its AWSService.
JsonSettles ==
  /\ rpc = "evaluating"
  /\ \E ci \in 1..Len(categoriesPromises) :
       \E si \in 1..Len(categoriesPromises[ci].services) :
         /\ categoriesPromises[ci].services[si].pc = "parsing"
         /\ \E response \in DetailResponses :
              \E now \in Clock : Settle(ci, si, response, now)
  /\ UNCHANGED <<discovered, resourceCounts, countFailed, cursor, categories,
                 totals, rpc>>
  /\ UNCHANGED <<healthVars, extractVars, runs, uiVars>>

\* Every promise has settled: getServiceCategories returns.
ReturnServiceCategories ==
  /\ rpc = "evaluating"
  /\ \A ci \in 1..Len(categoriesPromises) :
       \A si \in 1..Len(categoriesPromises[ci].services) :
         categoriesPromises[ci].services[si].pc = "done"
  /\ categories' = categoriesFrom(categoriesPromises, settledOrder)
  /\ rpc' = "returned"
  /\ UNCHANGED <<discovered, resourceCounts, countFailed, cursor,
                 categoriesPromises, settledOrder, totals>>
  /\ UNCHANGED <<healthVars, extractVars, runs, uiVars>>

\* getRegions and getAccounts, on the same snapshot.
GetRegions ==
  /\ rpc = "returned"
  /\ totals' = [totals EXCEPT !.region = regionTotal(resourceCounts)]
  /\ rpc' = "regions"
  /\ UNCHANGED <<discovered, resourceCounts, countFailed, cursor,
                 categoriesPromises, settledOrder, categories>>
  /\ UNCHANGED <<healthVars, extractVars, runs, uiVars>>

GetAccounts ==
  /\ rpc = "regions"
  /\ totals' = [totals EXCEPT !.account = accountTotal(resourceCounts)]
  /\ rpc' = "accounts"
  /\ UNCHANGED <<discovered, resourceCounts, countFailed, cursor,
                 categoriesPromises, settledOrder, categories>>
  /\ UNCHANGED <<healthVars, extractVars, runs, uiVars>>

NextRollup ==
  \/ DiscoveryFails
  \/ DiscoverySucceeds
  \/ FetchResourceCount
  \/ StartServiceCategories
  \/ FetchSettles
  \/ JsonSettles
  \/ ReturnServiceCategories
  \/ GetRegions
  \/ GetAccounts

SpecRollup == InitRollup /\ [][NextRollup]_vars


\* Claim vocabulary for the rollup.
Emitted == rpc \in {"returned", "regions", "accounts"}
FixedOrdering ==
  << "compute", "database", "general", "storage", "networking",
     "integration", "cost_management", "security", "monitoring",
     "devops_tools", "analytics", "migration_transfer",
     "management_governance", "ai_ml" >>
\* The place of a category in the fixed ordering, 0 when it has none.
Rank(key) ==
  IF \E i \in 1..Len(FixedOrdering) : FixedOrdering[i] = key
  THEN CHOOSE i \in 1..Len(FixedOrdering) : FixedOrdering[i] = key
  ELSE 0
DiscoveredAt(key) ==
  CHOOSE i \in 1..Len(discovered) : discovered[i].key = key
EmittedKeys == [i \in 1..Len(categories) |-> categories[i].key]
StoredCount(key, name) ==
  LET hits == {i \in 1..Len(resourceCounts) :
                 /\ resourceCounts[i].category = key
                 /\ resourceCounts[i].serviceName = name}
  IN IF hits = {} THEN 0 ELSE resourceCounts[CHOOSE i \in hits : TRUE].count
IsEmitted(key, name) ==
  \E i \in 1..Len(categories) :
    /\ categories[i].key = key
    /\ \E j \in 1..Len(categories[i].services) :
         categories[i].services[j].serviceName = name

(***************************************************************************)
(* C15: the categories getServiceCategories emits always appear in the     *)
(* fixed category ordering, whatever the key order of the discovered       *)
(* service map and the order the per-service fetches complete in.          *)
(***************************************************************************)
C15_FixedCategoryOrder ==
  Emitted =>
    \A i, j \in 1..Len(categories) :
      i < j => (0 < Rank(categories[i].key)
                /\ Rank(categories[i].key) < Rank(categories[j].key))

\* storage is discovered before compute and its fetch settles first, and
\* compute is still emitted before storage.
C15_Witness ==
  /\ Emitted
  /\ discovered # <<>>
  /\ DiscoveredAt("storage") < DiscoveredAt("compute")
  /\ settledOrder # <<>> /\ settledOrder[1][1] = Rank("storage")
  /\ EmittedKeys = <<"compute", "storage">>

(***************************************************************************)
(* C16: every emitted service has resourceCount > 0 and every emitted      *)
(* category has at least one service and totalResources > 0; a service     *)
(* with zero resources is omitted from its category, and a category whose  *)
(* services all have zero resources is omitted entirely.                   *)
(***************************************************************************)
C16_NothingEmptyEmitted ==
  Emitted =>
    /\ \A i \in 1..Len(categories) :
         /\ Len(categories[i].services) >= 1
         /\ categories[i].totalResources > 0
         /\ \A j \in 1..Len(categories[i].services) :
              categories[i].services[j].resourceCount > 0
    /\ \A k \in 1..Len(discovered) :
         /\ \A n \in 1..Len(discovered[k].names) :
              StoredCount(discovered[k].key, discovered[k].names[n]) = 0
                => ~IsEmitted(discovered[k].key, discovered[k].names[n])
         /\ (\A n \in 1..Len(discovered[k].names) :
               StoredCount(discovered[k].key, discovered[k].names[n]) = 0)
              => \A i \in 1..Len(categories) : categories[i].key # discovered[k].key

\* compute is emitted with eks alone because ec2 has no resources, and
\* storage is left out because s3 has none; neither fetch failed.
C16_Witness ==
  /\ Emitted
  /\ countFailed = {}
  /\ discovered # <<>>
  /\ StoredCount("compute", "ec2") = 0 /\ StoredCount("compute", "eks") = 2
  /\ StoredCount("storage", "s3") = 0
  /\ EmittedKeys = <<"compute">>
  /\ Len(categories[1].services) = 1
  /\ categories[1].services[1].serviceName = "eks"


RECURSIVE SumOfCounts(_)
SumOfCounts(emitted) ==
  IF emitted = <<>> THEN 0
  ELSE Head(emitted).resourceCount + SumOfCounts(Tail(emitted))
RECURSIVE SumOfTotals(_)
SumOfTotals(emitted) ==
  IF emitted = <<>> THEN 0
  ELSE Head(emitted).totalResources + SumOfTotals(Tail(emitted))

(***************************************************************************)
(* C17: rollup totals are sums of their children: each emitted category's  *)
(* totalResources is the sum of resourceCount over its emitted services,   *)
(* and the region total, and hence the account total, is the sum of        *)
(* totalResources over the categories emitted for it, for every            *)
(* discovered service map.                                                 *)
(***************************************************************************)
C17_TotalsAreSums ==
  rpc = "accounts" =>
    /\ \A i \in 1..Len(categories) :
         categories[i].totalResources = SumOfCounts(categories[i].services)
    /\ totals.region = SumOfTotals(categories)
    /\ totals.account = SumOfTotals(categories)

\* The data the request of an emitted service ended with.
DataOf(key, name) ==
  LET promises == categoriesPromises[Rank(key)].services
  IN promises[CHOOSE j \in 1..Len(promises) : promises[j].serviceName = name].data
StatusOf(healthPercent) ==
  IF healthPercent >= 90 THEN "healthy"
  ELSE IF healthPercent >= 70 THEN "warning" ELSE "critical"
\* The services of a category evaluated one after the other, in the order
\* the discovered map lists them.
SequentialServices(key) ==
  LET names == discovered[DiscoveredAt(key)].names
      Positive(name) == StoredCount(key, name) > 0
      kept == SelectSeq(names, Positive)
  IN [j \in 1..Len(kept) |->
        LET health == calculateServiceHealth(kept[j], DataOf(key, kept[j]))
        IN [serviceName |-> kept[j], categoryKey |-> key,
            resourceCount |-> StoredCount(key, kept[j]),
            healthPercent |-> health.healthPercent,
            status |-> StatusOf(health.healthPercent),
            scanStatus |-> health.scanStatus]]
SequentialCategories ==
  LET Discovered(key) == \E i \in 1..Len(discovered) : discovered[i].key = key
      NotEmpty(key) == Discovered(key) /\ Len(SequentialServices(key)) > 0
      keys == SelectSeq(FixedOrdering, NotEmpty)
  IN [i \in 1..Len(keys) |->
        [key |-> keys[i], null |-> FALSE,
         services |-> SequentialServices(keys[i]),
         totalResources |-> SumOfCounts(SequentialServices(keys[i]))]]
\* A step of one service call leaves the promise of every other call, and
\* the snapshot, as they were.
OneCallOnly ==
  (rpc = "evaluating" /\ rpc' = "evaluating")
    => /\ UNCHANGED <<discovered, resourceCounts>>
       /\ \E ci \in 1..Len(categoriesPromises) :
            \E si \in 1..Len(categoriesPromises[ci].services) :
              \A cj \in 1..Len(categoriesPromises) :
                \A sj \in 1..Len(categoriesPromises[cj].services) :
                  <<cj, sj>> # <<ci, si>>
                    => categoriesPromises'[cj].services[sj]
                         = categoriesPromises[cj].services[sj]

(***************************************************************************)
(* C18: evaluating the services in parallel gives the same result as       *)
(* evaluating them one after the other: for every interleaving of the      *)
(* per-service evaluations the emitted categories and services (order,     *)
(* resourceCount, healthPercent, scanStatus) are those of the sequential   *)
(* evaluation, and no per-service evaluation reads or writes state touched *)
(* by another.                                                             *)
(***************************************************************************)
C18_ParallelIsSequential ==
  /\ [](Emitted => categories = SequentialCategories)
  /\ [][OneCallOnly]_vars

\* eks settles before ec2 and ec2 is still emitted first.
C18_Witness ==
  /\ Emitted
  /\ Len(categories) >= 1 /\ categories[1].key = "compute"
  /\ Len(categories[1].services) = 2
  /\ categories[1].services[1].serviceName = "ec2"
  /\ categories[1].services[1].healthPercent # categories[1].services[2].healthPercent
  /\ \E k, l \in 1..Len(settledOrder) :
       /\ k < l
       /\ settledOrder[k] = <<Rank("compute"), 2>>
       /\ settledOrder[l] = <<Rank("compute"), 1>>

(***************************************************************************)
(* C19: when obtaining or analysing one service's data fails (fetch error, *)
(* non-OK response or unparsable body), the other services' summaries are  *)
(* still emitted unchanged and the affected service is itself emitted with *)
(* scan_status = failed rather than dropped or surfaced as a thrown error. *)
(***************************************************************************)
C19_FailedServiceEmitted ==
  (Emitted /\ discovered # <<>>) =>
    /\ categories = SequentialCategories
    /\ \A k \in 1..Len(discovered) :
         \A n \in 1..Len(discovered[k].names) :
           LET key == discovered[k].key
               name == discovered[k].names[n]
           IN (Rank(key) > 0 /\ <<key, name>> \in countFailed)
                => \E i \in 1..Len(categories) :
                     /\ categories[i].key = key
                     /\ \E j \in 1..Len(categories[i].services) :
                          /\ categories[i].services[j].serviceName = name
                          /\ categories[i].services[j].scanStatus = "failed"
    /\ \A i \in 1..Len(categories) :
         \A j \in 1..Len(categories[i].services) :
           DataOf(categories[i].key, categories[i].services[j].serviceName) = NullData
             => categories[i].services[j].scanStatus = "failed"


(***************************************************************************)
(* Two runs of the scoring path of createServiceModelWithData              *)
(* (normalizeServiceData, then calculateServiceHealth) on payloads that    *)
(* differ in their timestamps only                                         *)
(***************************************************************************)
WithoutField(entries, key) ==
  LET Other(entry) == entry.key # key
  IN SelectSeq(entries, Other)

\* The record with `key` set to `value`, or without it when value is undefined.
SetField(object, key, value) ==
  ObjectValue(IF value = Undefined THEN WithoutField(object.entries, key)
              ELSE Append(WithoutField(object.entries, key), Entry(key, value)))

\* The payload with the timestamp `stamp` as generated_at and, when it has
\* a summary record, as the summary's scanned_at.
Stamped(body, stamp) ==
  LET top == SetField(body, "generated_at", stamp)
  IN IF isRecord(Get(top, "summary"))
     THEN SetField(top, "summary", SetField(Get(top, "summary"), "scanned_at", stamp))
     ELSE top

Timestamps == {Undefined, Str("T0"), Str("T9"), Num(7)}
ScoredNames == {"ec2", "s3", "eks", "vpc"}
ScoredBodies == {FullBody, ListBody, EmptyBody, NullElementBody}

NewRun(name, raw) ==
  [name |-> name, raw |-> raw, pc |-> "parsed", detail |-> JsNull,
   result |-> NoResult]

InitScore ==
  /\ HealthIdle
  /\ ExtractIdle
  /\ RollupIdle
  /\ UiIdle
  /\ \E name \in ScoredNames, body \in ScoredBodies :
       \E stamp1 \in Timestamps, stamp2 \in Timestamps :
         runs = <<NewRun(name, Stamped(body, stamp1)),
                  NewRun(name, Stamped(body, stamp2))>>

\* serviceData = this.normalizeServiceData(rawData, ...), inside the try.
NormalizeRun ==
  /\ \E i \in 1..Len(runs) :
       /\ runs[i].pc = "parsed"
       /\ \E now \in Clock :
            runs' = [runs EXCEPT
                       ![i].detail = normalizedOrNull(runs[i].raw, runs[i].name, now),
                       ![i].pc = "normalized"]
  /\ UNCHANGED <<healthVars, extractVars, rollupVars, uiVars>>

\* const { healthPercent, scanStatus } = this.calculateServiceHealth(...)
ScoreRun ==
  /\ \E i \in 1..Len(runs) :
       /\ runs[i].pc = "normalized"
       /\ runs' = [runs EXCEPT
                     ![i].result = calculateServiceHealth(runs[i].name,
                                                          typedDetail(runs[i].detail)),
                     ![i].pc = "scored"]
  /\ UNCHANGED <<healthVars, extractVars, rollupVars, uiVars>>

NextScore ==
  \/ NormalizeRun
  \/ ScoreRun

SpecScore == InitScore /\ [][NextScore]_vars

BothScored ==
  /\ Len(runs) = 2
  /\ runs[1].pc = "scored" /\ runs[2].pc = "scored"

(***************************************************************************)
(* C20: scoring is deterministic and never consults timestamps: two runs   *)
(* on payloads that are identical except for their timestamp fields give   *)
(* the same healthPercent and scanStatus, and so do two runs on the same   *)
(* payload.                                                                *)
(***************************************************************************)
C20_TimestampsNotConsulted ==
  BothScored =>
    /\ runs[1].result.healthPercent = runs[2].result.healthPercent
    /\ runs[1].result.scanStatus = runs[2].result.scanStatus

\* The two payloads carry different timestamps, the normalized details
\* differ in generated_at, and both runs give the same score, strictly
\* between 0 and 100.
C20_Witness ==
  /\ BothScored
  /\ runs[1].raw # runs[2].raw
  /\ runs[1].detail.t = "object" /\ runs[2].detail.t = "object"
  /\ Get(runs[1].detail, "generated_at") # Get(runs[2].detail, "generated_at")
  /\ runs[1].result.healthPercent \in 1..99
  /\ runs[1].result = runs[2].result


(***************************************************************************)
(* The workload optimization analyzer (specification section 4.3): its     *)
(* code is not among the sources, so it is modelled from the document.     *)
(***************************************************************************)

MaxFunctions == 2

\* The architecture a migration starts from, and the monthly cost of a
\* function as allocated and as right-sized.
Baseline == "x86_64"
AllocatedCost == 20
RightSizedCost == 10

\* Invocations and errors of the metrics window, the memory utilization in
\* percent, and the architecture with the runtime's migration eligibility.
Traffic ==
  {[invocations |-> 0, errors |-> 0], [invocations |-> 100, errors |-> 0],
   [invocations |-> 100, errors |-> 1], [invocations |-> 100, errors |-> 10]}
Utilizations == {20, 50, 90}
Platforms ==
  {[architecture |-> "x86_64", eligible |-> TRUE],
   [architecture |-> "x86_64", eligible |-> FALSE],
   [architecture |-> "arm64", eligible |-> FALSE]}
LambdaMetrics ==
  {[invocations |-> t.invocations, errors |-> t.errors, utilization |-> u,
    architecture |-> p.architecture, eligible |-> p.eligible] :
     t \in Traffic, u \in Utilizations, p \in Platforms}

\* Step 3: idle resources are exempt from memory classification.
memoryStatus(m) ==
  IF m.invocations = 0 THEN "optimal"
  ELSE IF m.utilization < 30 THEN "over_provisioned"
  ELSE IF m.utilization > 80 THEN "under_provisioned"
  ELSE "optimal"

\* Step 2: error_rate > 5.0, with error_rate = errors / invocations * 100.
highErrorRate(m) ==
  IF m.invocations > 0 THEN m.errors * 100 > 5 * m.invocations ELSE FALSE

\* Step 4.
migrationCandidate(m) ==
  /\ m.architecture = Baseline
  /\ m.invocations # 0
  /\ ~highErrorRate(m)
  /\ m.eligible

\* Step 5: the three contributions.
potentialSavings(m) ==
  (IF m.invocations = 0 THEN AllocatedCost ELSE 0)
  + (IF memoryStatus(m) = "over_provisioned"
       THEN AllocatedCost - RightSizedCost ELSE 0)
  + (IF migrationCandidate(m) THEN (AllocatedCost * 20) \div 100 ELSE 0)

\* Step 6: one sentence per triggered condition, in the fixed order.
recommendationsOf(m) ==
  (IF m.invocations = 0 THEN <<"idle">> ELSE <<>>)
  \o (IF memoryStatus(m) = "over_provisioned" THEN <<"over-provisioned">> ELSE <<>>)
  \o (IF memoryStatus(m) = "under_provisioned" THEN <<"under-provisioned">> ELSE <<>>)
  \o (IF highErrorRate(m) THEN <<"high-error">> ELSE <<>>)
  \o (IF migrationCandidate(m) THEN <<"migration-candidate">> ELSE <<>>)

analyze(m) ==
  [is_idle |-> m.invocations = 0,
   invocations |-> m.invocations,
   errors |-> m.errors,
   error_rate |-> IF m.invocations > 0
                    THEN (m.errors * 100) \div m.invocations ELSE 0,
   memory_status |-> memoryStatus(m),
   memory_utilization_percent |-> m.utilization,
   high_error_rate |-> highErrorRate(m),
   arm_candidate |-> migrationCandidate(m),
   potential_savings |-> potentialSavings(m),
   recommendations |-> recommendationsOf(m)]

\* A resource of the payload, with and without the analyzer's result.
AnalyzedResource(m) ==
  [architecture |-> m.architecture, analyzed |-> TRUE,
   optimization |-> analyze(m)]
PlainResource(m) ==
  [architecture |-> m.architecture, analyzed |-> FALSE,
   optimization |-> Undefined]

CountWhere(list, Flag(_)) == Len(SelectSeq(list, Flag))
SavingsOf(list) == SumSeq([i \in 1..Len(list) |-> list[i].optimization.potential_savings])

IsIdleResource(fn) == fn.optimization.is_idle
IsOverResource(fn) == fn.optimization.memory_status = "over_provisioned"
IsUnderResource(fn) == fn.optimization.memory_status = "under_provisioned"
IsHighErrorResource(fn) == fn.optimization.high_error_rate
IsArmResource(fn) == fn.optimization.arm_candidate

\* The summary: counts and savings summed across the analyzed resources.
summarize(list) ==
  [total_functions |-> Len(list),
   idle_functions |-> CountWhere(list, IsIdleResource),
   over_provisioned_memory |-> CountWhere(list, IsOverResource),
   under_provisioned_memory |-> CountWhere(list, IsUnderResource),
   high_error_rate |-> CountWhere(list, IsHighErrorResource),
   arm_migration_candidates |-> CountWhere(list, IsArmResource),
   potential_monthly_savings |-> SavingsOf(list)]

\* The payload of a service: analyzed for the workload service only.
AnalyzedPayload(ms) ==
  LET list == [i \in 1..Len(ms) |-> AnalyzedResource(ms[i])]
  IN  [optimization_summary |-> summarize(list), resources |-> list]
PlainPayload(ms) ==
  [optimization_summary |-> Undefined,
   resources |-> [i \in 1..Len(ms) |-> PlainResource(ms[i])]]


(***************************************************************************)
(* The Lambda analysis page and cards                                      *)
(***************************************************************************)

\* value || 0 on a number.
NumberOrZero(n) == IF n = 0 THEN 0 ELSE n

\* fn.optimization?.flag: false for a resource without optimization.
isIdle(fn) == fn.analyzed /\ fn.optimization.is_idle
isOverProvisioned(fn) ==
  fn.analyzed /\ fn.optimization.memory_status = "over_provisioned"
isHighError(fn) == fn.analyzed /\ fn.optimization.high_error_rate
isArmCandidateByArchitecture(fn) == fn.analyzed /\ fn.architecture = "x86_64"

isArmCandidate(fn) == fn.analyzed /\ fn.optimization.arm_candidate

\* The label of the status badge of a function card.
getStatusBadgeByMemory(opt) ==
  IF opt.memory_status = "over_provisioned" THEN "Over-provisioned"
  ELSE IF opt.memory_status = "under_provisioned" THEN "Under-provisioned"
  ELSE IF opt.is_idle THEN "Idle"
  ELSE IF opt.high_error_rate THEN "High Errors"
  ELSE "Optimized"
getStatusBadge(opt) ==
  IF opt.is_idle THEN "Idle"
  ELSE IF opt.memory_status = "over_provisioned" THEN "Over-provisioned"
  ELSE IF opt.memory_status = "under_provisioned" THEN "Under-provisioned"
  ELSE IF opt.high_error_rate THEN "High Errors"
  ELSE "Optimized"

\* A card without optimization shows no badge.
LambdaFunctionCard(func) ==
  IF ~func.analyzed THEN "none" ELSE getStatusBadge(func.optimization)

\* The tiles and the "All Lambda functions are optimized" block of the card.
LambdaOptimizationCard(summary) ==
  LET hasIssues == \/ summary.idle_functions > 0
                   \/ summary.over_provisioned_memory > 0
                   \/ summary.high_error_rate > 0
  IN  [hasSavings |-> summary.potential_monthly_savings > 0,
       tiles |-> {t \in {"idle", "over", "errors", "arm", "under"} :
                    \/ t = "idle" /\ summary.idle_functions > 0
                    \/ t = "over" /\ summary.over_provisioned_memory > 0
                    \/ t = "errors" /\ summary.high_error_rate > 0
                    \/ t = "arm" /\ summary.arm_migration_candidates > 0
                    \/ t = "under" /\ summary.under_provisioned_memory > 0},
       noIssues |-> ~hasIssues,
       total |-> summary.total_functions]

NothingRendered == [type |-> "null"]

renderLambdaAnalysis(data) ==
  IF data.type # "lambda" THEN NothingRendered
  ELSE
    LET summary == data.summary
        list == data.resources
        idleFunctions == NumberOrZero(summary.idle_functions)
        overProvisioned == NumberOrZero(summary.over_provisioned_memory)
        underProvisioned == NumberOrZero(summary.under_provisioned_memory)
        highErrors == NumberOrZero(summary.high_error_rate)
        armCandidates == NumberOrZero(summary.arm_migration_candidates)
    IN  [type |-> "lambda",
         totalFunctions |-> NumberOrZero(summary.total_functions),
         idleFunctions |-> idleFunctions,
         overProvisioned |-> overProvisioned,
         underProvisioned |-> underProvisioned,
         highErrors |-> highErrors,
         armCandidates |-> armCandidates,
         potentialSavings |-> NumberOrZero(summary.potential_monthly_savings),
         idleFunctionList |-> SelectSeq(list, isIdle),
         overProvisionedList |-> SelectSeq(list, isOverProvisioned),
         highErrorList |-> SelectSeq(list, isHighError),
         armCandidateList |-> SelectSeq(list, isArmCandidate),
         opportunities |->
           {t \in {"idle", "over", "under", "errors", "arm"} :
              \/ t = "idle" /\ idleFunctions > 0
              \/ t = "over" /\ overProvisioned > 0
              \/ t = "under" /\ underProvisioned > 0
              \/ t = "errors" /\ highErrors > 0
              \/ t = "arm" /\ armCandidates > 0},
         allOptimized |-> /\ idleFunctions = 0
                          /\ overProvisioned = 0
                          /\ underProvisioned = 0
                          /\ highErrors = 0
                          /\ armCandidates = 0]

renderGenericAnalysis(data) ==
  IF data.type # "generic" THEN NothingRendered
  ELSE [type |-> "generic", resourceCount |-> NumberOrZero(data.resourceCount)]

\* The fallback of getServiceDetails when the request fails.
loadSimulatedServiceData == PlainPayload(<<>>)

\* The analysis data the page derives from the service details.
analysisDataOf(param, data) ==
  IF param = "lambda" /\ data.optimization_summary # Undefined
    THEN [type |-> "lambda", summary |-> data.optimization_summary,
          resources |-> data.resources]
    ELSE [type |-> "generic", resourceCount |-> NumberOrZero(Len(data.resources)),
          resources |-> data.resources]

AnalyzedServices == {"", "lambda", "ec2"}

MetricsUpTo(n) == UNION {[1..k -> LambdaMetrics] : k \in 0..n}

InitLambda ==
  /\ BackendIdle
  /\ StoreIdle
  /\ GridIdle
  /\ SortIdle
  /\ NameIdle
  /\ metrics \in MetricsUpTo(MaxFunctions)
  /\ serviceParam \in AnalyzedServices
  /\ lambdaDetail = <<>>
  /\ analysisData = <<>>
  /\ rendered = <<>>
  /\ apc = "scanned"

\* The analyzer writes the payload of the service.
Analyze ==
  /\ apc = "scanned"
  /\ lambdaDetail' = IF serviceParam = "lambda" THEN AnalyzedPayload(metrics)
                     ELSE PlainPayload(metrics)
  /\ apc' = "stored"
  /\ UNCHANGED <<metrics, serviceParam, analysisData, rendered>>
  /\ UNCHANGED exceptLambda

\* loadData of the page's effect: nothing without a service parameter,
\* else the service details (simulated when the request fails).
LoadData ==
  /\ apc = "stored"
  /\ IF serviceParam = ""
       THEN /\ apc' = "loading"
            /\ UNCHANGED analysisData
       ELSE \E ok \in BOOLEAN :
              /\ analysisData' =
                   analysisDataOf(serviceParam,
                     IF ok THEN lambdaDetail ELSE loadSimulatedServiceData)
              /\ apc' = "loaded"
  /\ UNCHANGED <<metrics, lambdaDetail, serviceParam, rendered>>
  /\ UNCHANGED exceptLambda

\* The page renders its analysis, the summary card and one card a function.
Render ==
  /\ apc = "loaded"
  /\ rendered' =
       [page |-> IF analysisData.type = "lambda"
                   THEN renderLambdaAnalysis(analysisData)
                   ELSE renderGenericAnalysis(analysisData),
        card |-> IF analysisData.type = "lambda"
                   THEN LambdaOptimizationCard(analysisData.summary)
                   ELSE NothingRendered,
        badges |-> [i \in 1..Len(analysisData.resources) |->
                      LambdaFunctionCard(analysisData.resources[i])]]
  /\ apc' = "rendered"
  /\ UNCHANGED <<metrics, lambdaDetail, serviceParam, analysisData>>
  /\ UNCHANGED exceptLambda

NextLambda == Analyze \/ LoadData \/ Render

SpecLambda == InitLambda /\ [][NextLambda]_vars


(***************************************************************************)
(* Claims about the workload analysis                                      *)
(***************************************************************************)

\* The page shows the Lambda analysis of an analyzed payload.
LambdaRendered == apc = "rendered" /\ rendered.page.type = "lambda"
PayloadAnalyzed ==
  apc \in {"stored", "loading", "loaded", "rendered"} /\ serviceParam = "lambda"

\* Every combination of the fields the status badge reads.
AnyOptimization ==
  [is_idle : BOOLEAN,
   memory_status : {"optimal", "over_provisioned", "under_provisioned"},
   high_error_rate : BOOLEAN]

\* The positions of the resources of a list that carry a flag.
Flagged(list, Flag(_)) == {i \in 1..Len(list) : Flag(list[i])}

C25_MessageIffNoFinding ==
  LambdaRendered =>
    /\ rendered.card.noIssues <=> rendered.card.tiles = {}
    /\ rendered.page.allOptimized <=> rendered.page.opportunities = {}
    /\ rendered.page.allOptimized
         <=> /\ rendered.page.idleFunctions = 0
             /\ rendered.page.overProvisioned = 0
             /\ rendered.page.underProvisioned = 0
             /\ rendered.page.highErrors = 0
             /\ rendered.page.armCandidates = 0
    /\ rendered.card.noIssues <=> rendered.page.allOptimized


(***************************************************************************)
(* The app store                                                           *)
(***************************************************************************)

MaxLoads == 2

\* The accounts, regions and categories the data service returns: a region
\* carries the account, and a category the account and region, it was
\* computed for.
AccountNames == {"prod", "dev"}
Account(name) == [name |-> name]
Region(code, accountName) == [code |-> code, account |-> accountName]
Category(name, accountName, code) ==
  [name |-> name, account |-> accountName, region |-> code]
getAccountsResult == <<Account("prod"), Account("dev")>>
getRegionsResult(accountName) ==
  IF accountName = "prod"
    THEN <<Region("r1", accountName), Region("r2", accountName)>>
    ELSE <<Region("r1", accountName)>>
getServiceCategoriesResult(accountName, code) ==
  <<Category("compute", accountName, code)>>
getLastScanTimestampResult == Str("T1")

\* What a rejected request throws: an Error with its message, or a value
\* that is no Error.
Thrown == {[isError |-> TRUE, message |-> "Cannot read properties of undefined"],
           [isError |-> FALSE, message |-> ""]}

InitialState ==
  [accounts |-> <<>>,
   regions |-> <<>>,
   serviceCategories |-> <<>>,
   lastScanTimestamp |-> JsNull,
   selectedAccount |-> JsNull,
   selectedRegion |-> JsNull,
   selectedCategory |-> JsNull,
   accountSidebarOpen |-> TRUE,
   regionSidebarOpen |-> FALSE,
   loading |-> FALSE,
   error |-> JsNull]

\* set(partial): the fields of the partial state replace the store's.
set(s, partial) ==
  [f \in DOMAIN s |-> IF f \in DOMAIN partial THEN partial[f] ELSE s[f]]

\* The request a load action awaits.
Request(kind, accountName, code) ==
  [kind |-> kind, accountName |-> accountName, regionCode |-> code,
   state |-> "pending", thrown |-> [isError |-> FALSE, message |-> ""]]

\* The first statement of every load action.
loadStarts(s) == set(s, [loading |-> TRUE, error |-> JsNull])

defaultMessage(kind) ==
  IF kind = "accounts" THEN "Failed to load accounts"
  ELSE IF kind = "regions" THEN "Failed to load regions"
  ELSE "Failed to load services"

\* The statement after the await of a load action: the try branch when the
\* request resolved, the catch branch when it rejected.
loadSettlesKeepingLoading(s, request) ==
  IF request.state = "resolved"
    THEN IF request.kind = "accounts"
           THEN set(s, [accounts |-> getAccountsResult])
         ELSE IF request.kind = "regions"
           THEN set(s, [regions |-> getRegionsResult(request.accountName)])
         ELSE set(s, [serviceCategories |->
                        getServiceCategoriesResult(request.accountName,
                                                   request.regionCode),
                      lastScanTimestamp |-> getLastScanTimestampResult])
    ELSE set(s, [error |-> Str(IF request.thrown.isError
                                 THEN request.thrown.message
                                 ELSE defaultMessage(request.kind))])
loadSettles(s, request) ==
  IF request.state = "resolved"
    THEN IF request.kind = "accounts"
           THEN set(s, [accounts |-> getAccountsResult, loading |-> FALSE])
         ELSE IF request.kind = "regions"
           THEN set(s, [regions |-> getRegionsResult(request.accountName),
                        loading |-> FALSE])
         ELSE set(s, [serviceCategories |->
                        getServiceCategoriesResult(request.accountName,
                                                   request.regionCode),
                      lastScanTimestamp |-> getLastScanTimestampResult,
                      loading |-> FALSE])
    ELSE set(s, [error |-> Str(IF request.thrown.isError
                                 THEN request.thrown.message
                                 ELSE defaultMessage(request.kind)),
                 loading |-> FALSE])

\* The navigation actions up to their load.
selectAccountKeepingRegion(s, account) ==
  set(s, [selectedAccount |-> account,
          selectedCategory |-> JsNull,
          accountSidebarOpen |-> FALSE,
          regionSidebarOpen |-> TRUE,
          regions |-> <<>>])
selectAccount(s, account) ==
  set(s, [selectedAccount |-> account,
          selectedRegion |-> JsNull,
          selectedCategory |-> JsNull,
          accountSidebarOpen |-> FALSE,
          regionSidebarOpen |-> TRUE,
          regions |-> <<>>])

selectRegion(s, region) ==
  set(s, [selectedRegion |-> region,
          selectedCategory |-> JsNull,
          regionSidebarOpen |-> FALSE,
          serviceCategories |-> <<>>])

selectCategory(s, category) == set(s, [selectedCategory |-> category])

backToAccounts(s) ==
  set(s, [selectedAccount |-> JsNull,
          selectedRegion |-> JsNull,
          selectedCategory |-> JsNull,
          regions |-> <<>>,
          serviceCategories |-> <<>>,
          regionSidebarOpen |-> FALSE,
          accountSidebarOpen |-> TRUE])

backToRegions(s) ==
  set(s, [selectedRegion |-> JsNull,
          selectedCategory |-> JsNull,
          serviceCategories |-> <<>>,
          regionSidebarOpen |-> TRUE,
          accountSidebarOpen |-> FALSE])

toggleAccountSidebarOnly(s) ==
  set(s, [accountSidebarOpen |-> ~s.accountSidebarOpen])
toggleAccountSidebar(s) ==
  set(s, [accountSidebarOpen |-> ~s.accountSidebarOpen,
          regionSidebarOpen |-> IF ~s.accountSidebarOpen THEN FALSE
                                ELSE s.regionSidebarOpen])

toggleRegionSidebar(s) ==
  set(s, [regionSidebarOpen |-> ~s.regionSidebarOpen,
          accountSidebarOpen |-> IF ~s.regionSidebarOpen THEN FALSE
                                 ELSE s.accountSidebarOpen])

clearError(s) == set(s, [error |-> JsNull])

ItemsOf(list) == {list[i] : i \in 1..Len(list)}

\* The requests still under way once the load of one of them has finished.
Without(list, id) ==
  [i \in 1..(Len(list) - 1) |-> IF i < id THEN list[i] ELSE list[i + 1]]

InitStore ==
  /\ BackendIdle
  /\ LambdaIdle
  /\ GridIdle
  /\ SortIdle
  /\ NameIdle
  /\ store = InitialState
  /\ requests = <<>>

\* A load action runs up to its await; at most MaxLoads loads are under way.
Starts(s, request) ==
  /\ Len(requests) < MaxLoads
  /\ store' = loadStarts(s)
  /\ requests' = Append(requests, request)

\* loadAccounts, called when a page mounts.
LoadAccounts ==
  /\ Starts(store, Request("accounts", "", ""))
  /\ UNCHANGED exceptStore

\* loadRegions, called by the detail page for the selected account while no
\* region is selected.
LoadRegions ==
  /\ store.selectedRegion = JsNull
  /\ store.selectedAccount # JsNull
  /\ Starts(store, Request("regions", store.selectedAccount.name, ""))
  /\ UNCHANGED exceptStore

\* loadServiceCategories, called by the detail page for the selection while
\* no category is stored.
LoadServiceCategories ==
  /\ store.serviceCategories = <<>>
  /\ store.selectedAccount # JsNull
  /\ store.selectedRegion # JsNull
  /\ Starts(store, Request("services", store.selectedAccount.name,
                           store.selectedRegion.code))
  /\ UNCHANGED exceptStore

\* selectAccount with an account of the list, up to the await of its load.
SelectAccount ==
  /\ \E account \in ItemsOf(store.accounts) :
       Starts(selectAccount(store, account),
              Request("regions", account.name, ""))
  /\ UNCHANGED exceptStore

\* selectRegion with a region of the list: returns at once without a
\* selected account, else runs up to the await of its load.
SelectRegion ==
  /\ \E region \in ItemsOf(store.regions) :
       IF store.selectedAccount = JsNull
         THEN UNCHANGED <<store, requests>>
         ELSE Starts(selectRegion(store, region),
                     Request("services", store.selectedAccount.name,
                             region.code))
  /\ UNCHANGED exceptStore

SelectCategory ==
  /\ \E category \in ItemsOf(store.serviceCategories) :
       store' = selectCategory(store, category)
  /\ UNCHANGED requests
  /\ UNCHANGED exceptStore

\* backToAccounts, also the header's exit.
BackToAccounts ==
  /\ store' = backToAccounts(store)
  /\ UNCHANGED requests
  /\ UNCHANGED exceptStore

BackToRegions ==
  /\ store' = backToRegions(store)
  /\ UNCHANGED requests
  /\ UNCHANGED exceptStore

ToggleAccountSidebar ==
  /\ store' = toggleAccountSidebar(store)
  /\ UNCHANGED requests
  /\ UNCHANGED exceptStore

ToggleRegionSidebar ==
  /\ store' = toggleRegionSidebar(store)
  /\ UNCHANGED requests
  /\ UNCHANGED exceptStore

ClearError ==
  /\ store.error # JsNull
  /\ store' = clearError(store)
  /\ UNCHANGED requests
  /\ UNCHANGED exceptStore

\* The data request of a load resolves or rejects.
RequestSettles ==
  /\ \E id \in 1..Len(requests) :
       /\ requests[id].state = "pending"
       /\ \/ requests' = [requests EXCEPT ![id].state = "resolved"]
          \/ \E thrown \in Thrown :
               requests' = [requests EXCEPT ![id].state = "rejected",
                                            ![id].thrown = thrown]
  /\ UNCHANGED store
  /\ UNCHANGED exceptStore

\* The load action resumes after its await.
Resumes(id) ==
  /\ requests[id].state \in {"resolved", "rejected"}
  /\ store' = loadSettles(store, requests[id])
  /\ requests' = Without(requests, id)
  /\ UNCHANGED exceptStore

LoadResumes == \E id \in 1..Len(requests) : Resumes(id)

NextStore ==
  \/ LoadAccounts
  \/ LoadRegions
  \/ LoadServiceCategories
  \/ SelectAccount
  \/ SelectRegion
  \/ SelectCategory
  \/ BackToAccounts
  \/ BackToRegions
  \/ ToggleAccountSidebar
  \/ ToggleRegionSidebar
  \/ ClearError
  \/ RequestSettles
  \/ LoadResumes

SpecStore == InitStore /\ [][NextStore]_vars

\* A resumed load always runs on: the continuation of an await is a queued
\* job of the event loop.
SpecStoreFair == SpecStore /\ WF_vars(LoadResumes)


(***************************************************************************)
(* Claims about the app store                                              *)
(***************************************************************************)

IsNull(v) == v = JsNull
Settled(request) == request.state \in {"resolved", "rejected"}
SomeSettled == \E id \in 1..Len(requests) : Settled(requests[id])

\* C23: the stored regions are empty or those of the selected account, and
\* the stored categories are empty or those of the selected account and
\* region.
C23_DataMatchesSelection ==
  /\ \/ store.regions = <<>>
     \/ /\ ~IsNull(store.selectedAccount)
        /\ \A r \in ItemsOf(store.regions) :
             r.account = store.selectedAccount.name
  /\ \/ store.serviceCategories = <<>>
     \/ /\ ~IsNull(store.selectedAccount)
        /\ ~IsNull(store.selectedRegion)
        /\ \A c \in ItemsOf(store.serviceCategories) :
             /\ c.account = store.selectedAccount.name
             /\ c.region = store.selectedRegion.code

\* C26: the account sidebar and the region sidebar are never both open.
C26_OneSidebarOpen == ~(store.accountSidebarOpen /\ store.regionSidebarOpen)

\* The account sidebar was toggled open over an open region sidebar.
C26_Witness ==
  /\ store.accountSidebarOpen
  /\ ~store.regionSidebarOpen
  /\ ~IsNull(store.selectedAccount)
  /\ IsNull(store.selectedRegion)

\* C27: a region is selected only under an account; selectRegion without a
\* selected account changes nothing and starts no load; selectAccount and
\* backToAccounts clear the selected region and category.
C27_RegionUnderAccount ==
  /\ [](~IsNull(store.selectedRegion) => ~IsNull(store.selectedAccount))
  /\ [][SelectRegion /\ IsNull(store.selectedAccount)
          => UNCHANGED <<store, requests>>]_vars
  /\ [][SelectAccount \/ BackToAccounts
          => IsNull(store'.selectedRegion) /\ IsNull(store'.selectedCategory)]_vars

\* A region and a category are selected under an account.
C27_Witness ==
  /\ ~IsNull(store.selectedAccount)
  /\ ~IsNull(store.selectedRegion)
  /\ ~IsNull(store.selectedCategory)

\* What the resumed load of a request does to the stored lists.
ListsUnchanged ==
  /\ store'.accounts = store.accounts
  /\ store'.regions = store.regions
  /\ store'.serviceCategories = store.serviceCategories
  /\ store'.lastScanTimestamp = store.lastScanTimestamp
FetchedStored(request) ==
  IF request.kind = "accounts" THEN store'.accounts = getAccountsResult
  ELSE IF request.kind = "regions"
    THEN store'.regions = getRegionsResult(request.accountName)
  ELSE store'.serviceCategories
         = getServiceCategoriesResult(request.accountName, request.regionCode)
StartsLoading == Len(requests') > Len(requests) => store'.loading /\ IsNull(store'.error)
FailureReported(id) ==
  (Resumes(id) /\ requests[id].state = "rejected")
    => /\ ~store'.loading
       /\ store'.error.t = "string" /\ store'.error.s # ""
       /\ ListsUnchanged
EventuallyNotLoading ==
  /\ SomeSettled ~> ~store.loading
  /\ [](requests = <<>> => ~store.loading)

\* C28 as stated: a load sets loading and clears the error when it starts;
\* once its request settles it eventually clears loading, storing the list
\* with the error still null on success, reporting a message and leaving the
\* lists on failure; loading does not outlast the loads.
C28_LoadSettles ==
  /\ [][StartsLoading]_vars
  /\ [][\A id \in 1..Len(requests) :
          /\ (Resumes(id) /\ requests[id].state = "resolved")
               => /\ ~store'.loading
                  /\ FetchedStored(requests[id])
                  /\ IsNull(store'.error)
          /\ FailureReported(id)]_vars
  /\ EventuallyNotLoading

\* C28 as amended: on success the error is left as it was, so it is null
\* unless another load failed after this one started.
C28_LoadSettlesErrorKept ==
  /\ [][StartsLoading]_vars
  /\ [][\A id \in 1..Len(requests) :
          /\ (Resumes(id) /\ requests[id].state = "resolved")
               => /\ ~store'.loading
                  /\ FetchedStored(requests[id])
                  /\ store'.error = store.error
          /\ FailureReported(id)]_vars
  /\ EventuallyNotLoading

\* Every load has returned, one with its list and one with an error.
C28_Witness ==
  /\ requests = <<>>
  /\ store.accounts # <<>>
  /\ ~IsNull(store.error)
  /\ ~store.loading


(***************************************************************************)
(* The service grid                                                        *)
(***************************************************************************)

\* The categories the store can hold: each key with the number of its
\* services, in the order of the data service.
GridKeys == <<"compute", "storage", "database">>
GridCategory(key) == [key |-> key, services |-> IF key = "compute" THEN 2 ELSE 1]
CategoriesOf(keys) ==
  LET Kept(key) == key \in keys
      kept == SelectSeq(GridKeys, Kept)
  IN  [i \in 1..Len(kept) |-> GridCategory(kept[i])]
CategoryLists == {CategoriesOf(keys) : keys \in SUBSET ItemsOf(GridKeys)}

\* serviceCategories.map(cat => cat.key)
KeysOf(list) == [i \in 1..Len(list) |-> list[i].key]

includes(list, key) == \E i \in 1..Len(list) : list[i] = key

\* One render's useMemo: its callback runs when the categories or the length
\* of the selection changed, and selects every category when categories are
\* loaded and none is selected.
useMemo(list, selected, deps, reloaded) ==
  LET ran == reloaded \/ deps # Len(selected)
  IN  [selected |-> IF ran /\ Len(list) > 0 /\ Len(selected) = 0
                      THEN KeysOf(list) ELSE selected,
       deps |-> Len(selected)]

\* The renders that follow a change: a state set during a render renders
\* again.
render(list, selected, deps, reloaded) ==
  LET first == useMemo(list, selected, deps, reloaded)
  IN  IF first.selected = selected THEN first
      ELSE useMemo(list, first.selected, first.deps, FALSE)

\* allServices.length, and what the grid shows for it.
allServices(list, selected) ==
  LET Chosen(category) == includes(selected, category.key)
      chosen == SelectSeq(list, Chosen)
  IN  SumSeq([i \in 1..Len(chosen) |-> chosen[i].services])
view(list, selected) ==
  IF Len(list) = 0 THEN "No services found for region"
  ELSE IF allServices(list, selected) = 0
    THEN "No services found for selected categories"
  ELSE "services"

toggleCategory(prev, categoryKey) ==
  IF includes(prev, categoryKey)
    THEN LET Other(key) == key # categoryKey IN SelectSeq(prev, Other)
    ELSE Append(prev, categoryKey)
selectAllCategories(list) == KeysOf(list)
clearAllCategories == <<>>

\* The grid renders after a change of the categories or of the selection.
Rendered(list, selected, reloaded) ==
  LET after == render(list, selected, memoDeps, reloaded)
  IN  /\ serviceCategories' = list
      /\ selectedCategories' = after.selected
      /\ memoDeps' = after.deps
      /\ shown' = view(list, after.selected)

InitGrid ==
  /\ BackendIdle
  /\ LambdaIdle
  /\ StoreIdle
  /\ SortIdle
  /\ NameIdle
  /\ serviceCategories = <<>>
  /\ selectedCategories = <<>>
  /\ memoDeps = 0
  /\ shown = "No services found for region"

\* The store delivers the categories of a region, or clears them.
CategoriesChange ==
  /\ \E list \in CategoryLists : Rendered(list, selectedCategories, TRUE)
  /\ UNCHANGED exceptGrid

\* A checkbox of the filter is clicked.
ToggleCategory ==
  /\ \E i \in 1..Len(serviceCategories) :
       Rendered(serviceCategories,
                toggleCategory(selectedCategories, serviceCategories[i].key),
                FALSE)
  /\ UNCHANGED exceptGrid

\* Select All of the filter, or Show all categories of the empty state.
SelectAllCategories ==
  /\ Len(serviceCategories) > 0
  /\ Rendered(serviceCategories, selectAllCategories(serviceCategories), FALSE)
  /\ UNCHANGED exceptGrid

ClearAllCategories ==
  /\ Len(serviceCategories) > 0
  /\ Rendered(serviceCategories, clearAllCategories, FALSE)
  /\ UNCHANGED exceptGrid

NextGrid ==
  \/ CategoriesChange
  \/ ToggleCategory
  \/ SelectAllCategories
  \/ ClearAllCategories

SpecGrid == InitGrid /\ [][NextGrid]_vars

(***************************************************************************)
(* Claims about the service grid                                           *)
(***************************************************************************)

CategoriesLoaded == Len(serviceCategories) > 0

\* C24: after Clear All, or after the last selected category was unchecked,
\* with categories loaded, no category is selected and the empty state is
\* shown, and it stays so until a category is checked or all are selected.
C24_ClearedStaysEmpty ==
  /\ [][(ClearAllCategories /\ CategoriesLoaded) => selectedCategories' = <<>>]_vars
  /\ [][(ToggleCategory /\ Len(selectedCategories) = 1
           /\ Len(selectedCategories') # 2)
          => selectedCategories' = <<>>]_vars
  /\ []((CategoriesLoaded /\ selectedCategories = <<>>)
          => shown = "No services found for selected categories")
  /\ [][(CategoriesLoaded /\ selectedCategories = <<>>
           /\ ~ToggleCategory /\ ~SelectAllCategories /\ CategoriesLoaded')
          => selectedCategories' = <<>>]_vars


(***************************************************************************)
(* The service detail table                                                *)
(***************************************************************************)

MaxRows == 2

\* The sortable columns, and the rows of the table: the values of a column
\* are numerals, which localeCompare with numeric collation orders as numbers.
SortColumns == {"name", "size"}
CellValues == 1..3
TableRows == [1..MaxRows -> [SortColumns -> CellValues]]

\* String(av).localeCompare(String(bv), undefined, { numeric: true })
localeCompare(av, bv) == IF av < bv THEN 0 - 1 ELSE IF av > bv THEN 1 ELSE 0

\* The comparator of the sort.
compare(a, b, key, dir) ==
  LET cmp == localeCompare(a[key], b[key])
  IN  IF dir = "asc" THEN cmp ELSE 0 - cmp

\* Array.prototype.sort: a stable sort, by insertion.
RECURSIVE InsertSorted(_, _, _, _)
InsertSorted(sorted, row, key, dir) ==
  IF sorted = <<>> THEN <<row>>
  ELSE IF compare(sorted[Len(sorted)], row, key, dir) <= 0
    THEN Append(sorted, row)
  ELSE Append(InsertSorted(SubSeq(sorted, 1, Len(sorted) - 1), row, key, dir),
              sorted[Len(sorted)])
RECURSIVE sort(_, _, _)
sort(data, key, dir) ==
  IF data = <<>> THEN <<>>
  ELSE InsertSorted(sort(SubSeq(data, 1, Len(data) - 1), key, dir),
                    data[Len(data)], key, dir)

\* The rows the table shows: sorted when a key and a direction are set.
filteredOf(data, key, dir) ==
  IF key # JsNull /\ key.s # "" /\ dir # JsNull
    THEN sort(data, key.s, dir.s) ELSE data

handleSortKeepingKey(key, current, dir) ==
  IF current = Str(key)
    THEN [sortKey |-> current,
          sortDir |-> IF dir = Str("asc") THEN Str("desc")
                      ELSE IF dir = Str("desc") THEN JsNull ELSE Str("asc")]
    ELSE [sortKey |-> Str(key), sortDir |-> Str("asc")]
handleSort(key, current, dir) ==
  IF current = Str(key)
    THEN [sortKey |-> IF dir = Str("desc") THEN JsNull ELSE current,
          sortDir |-> IF dir = Str("asc") THEN Str("desc")
                      ELSE IF dir = Str("desc") THEN JsNull ELSE Str("asc")]
    ELSE [sortKey |-> Str(key), sortDir |-> Str("asc")]

InitSort ==
  /\ BackendIdle
  /\ LambdaIdle
  /\ StoreIdle
  /\ GridIdle
  /\ NameIdle
  /\ tableRows \in TableRows
  /\ sortKey = JsNull
  /\ sortDir = JsNull
  /\ filteredRows = tableRows

\* The header of a column is clicked, and the table renders.
HandleSort(key) ==
  /\ LET next == handleSort(key, sortKey, sortDir)
     IN  /\ sortKey' = next.sortKey
         /\ sortDir' = next.sortDir
         /\ filteredRows' = filteredOf(tableRows, next.sortKey, next.sortDir)
  /\ UNCHANGED tableRows
  /\ UNCHANGED exceptSort

NextSort == \E key \in SortColumns : HandleSort(key)

SpecSort == InitSort /\ [][NextSort]_vars

(***************************************************************************)
(* Claims about the service detail table                                   *)
(***************************************************************************)

\* The shown rows are ordered by a column, ascending or descending.
Ordered(rows, key, dir) ==
  \A i \in 1..Len(rows), j \in 1..Len(rows) :
    i < j => IF dir = "asc" THEN rows[i][key] <= rows[j][key]
             ELSE rows[i][key] >= rows[j][key]
Unsorted == sortKey = JsNull /\ sortDir = JsNull /\ filteredRows = tableRows
SortedBy(key, dir) ==
  /\ sortKey = Str(key)
  /\ sortDir = Str(dir)
  /\ Ordered(filteredRows, key, dir)

\* C29: a click on an unsorted column sorts it ascending, a second click
\* descending, a third returns to unsorted; a click on another column starts
\* it ascending; sortKey is null exactly when sortDir is null.
C29_SortCycle ==
  /\ [](sortKey = JsNull <=> sortDir = JsNull)
  /\ [][\A key \in SortColumns :
          HandleSort(key) =>
            /\ sortKey # Str(key) => SortedBy(key, "asc")'
            /\ (sortKey = Str(key) /\ sortDir = Str("asc")) => SortedBy(key, "desc")'
            /\ (sortKey = Str(key) /\ sortDir = Str("desc")) => Unsorted']_vars

\* A column of different values is sorted descending.
C29_Witness ==
  /\ sortKey = Str("size")
  /\ sortDir = Str("desc")
  /\ filteredRows # tableRows


(***************************************************************************)
(* Service names: strings are sequences of characters                      *)
(***************************************************************************)

LowerCaseLetters == <<"a", "b", "c", "d", "e", "f", "g", "h", "i", "j", "k", "l", "m", "n", "o", "p", "q", "r", "s", "t", "u", "v", "w", "x", "y", "z">>
UpperCaseLetters == <<"A", "B", "C", "D", "E", "F", "G", "H", "I", "J", "K", "L", "M", "N", "O", "P", "Q", "R", "S", "T", "U", "V", "W", "X", "Y", "Z">>

IsLower(c) == \E i \in 1..Len(LowerCaseLetters) : LowerCaseLetters[i] = c
IsUpper(c) == \E i \in 1..Len(UpperCaseLetters) : UpperCaseLetters[i] = c
lowerOf(c) ==
  IF IsUpper(c)
    THEN LowerCaseLetters[CHOOSE i \in 1..Len(UpperCaseLetters) : UpperCaseLetters[i] = c]
    ELSE c
upperOf(c) ==
  IF IsLower(c)
    THEN UpperCaseLetters[CHOOSE i \in 1..Len(LowerCaseLetters) : LowerCaseLetters[i] = c]
    ELSE c
lowerCased(word) == [i \in 1..Len(word) |-> lowerOf(word[i])]

directReplacements ==
  <<
     [key |-> <<"s", "e", "c", "r", "e", "t", "s", "m", "a", "n", "a", "g", "e", "r">>,
      value |-> <<"S", "e", "c", "r", "e", "t", "s", " ", "M", "a", "n", "a", "g", "e", "r">>],
     [key |-> <<"t", "r", "u", "s", "t", "e", "d", "a", "d", "v", "i", "s", "o", "r">>,
      value |-> <<"T", "r", "u", "s", "t", "e", "d", " ", "A", "d", "v", "i", "s", "o", "r">>],
     [key |-> <<"c", "o", "s", "t", "e", "x", "p", "l", "o", "r", "e", "r">>,
      value |-> <<"C", "o", "s", "t", " ", "E", "x", "p", "l", "o", "r", "e", "r">>],
     [key |-> <<"c", "o", "m", "p", "u", "t", "e", "o", "p", "t", "i", "m", "i", "z", "e", "r">>,
      value |-> <<"C", "o", "m", "p", "u", "t", "e", " ", "O", "p", "t", "i", "m", "i", "z", "e", "r">>],
     [key |-> <<"r", "e", "s", "e", "r", "v", "e", "d", "i", "n", "s", "t", "a", "n", "c", "e", "s">>,
      value |-> <<"R", "e", "s", "e", "r", "v", "e", "d", " ", "I", "n", "s", "t", "a", "n", "c", "e", "s">>],
     [key |-> <<"s", "a", "v", "i", "n", "g", "s", "p", "l", "a", "n", "s">>,
      value |-> <<"S", "a", "v", "i", "n", "g", "s", " ", "P", "l", "a", "n", "s">>],
     [key |-> <<"c", "l", "o", "u", "d", "t", "r", "a", "i", "l">>,
      value |-> <<"C", "l", "o", "u", "d", " ", "T", "r", "a", "i", "l">>],
     [key |-> <<"c", "o", "n", "t", "r", "o", "l", "t", "o", "w", "e", "r">>,
      value |-> <<"C", "o", "n", "t", "r", "o", "l", " ", "T", "o", "w", "e", "r">>],
     [key |-> <<"s", "e", "r", "v", "i", "c", "e", "c", "a", "t", "a", "l", "o", "g">>,
      value |-> <<"S", "e", "r", "v", "i", "c", "e", " ", "C", "a", "t", "a", "l", "o", "g">>],
     [key |-> <<"c", "l", "o", "u", "d", "f", "o", "r", "m", "a", "t", "i", "o", "n">>,
      value |-> <<"C", "l", "o", "u", "d", " ", "F", "o", "r", "m", "a", "t", "i", "o", "n">>],
     [key |-> <<"c", "o", "d", "e", "b", "u", "i", "l", "d">>,
      value |-> <<"C", "o", "d", "e", " ", "B", "u", "i", "l", "d">>],
     [key |-> <<"c", "o", "d", "e", "c", "o", "m", "m", "i", "t">>,
      value |-> <<"C", "o", "d", "e", " ", "C", "o", "m", "m", "i", "t">>],
     [key |-> <<"c", "o", "d", "e", "d", "e", "p", "l", "o", "y">>,
      value |-> <<"C", "o", "d", "e", " ", "D", "e", "p", "l", "o", "y">>],
     [key |-> <<"c", "o", "d", "e", "p", "i", "p", "e", "l", "i", "n", "e">>,
      value |-> <<"C", "o", "d", "e", " ", "P", "i", "p", "e", "l", "i", "n", "e">>],
     [key |-> <<"c", "l", "o", "u", "d", "w", "a", "t", "c", "h">>,
      value |-> <<"C", "l", "o", "u", "d", " ", "W", "a", "t", "c", "h">>],
     [key |-> <<"c", "l", "o", "u", "d", "f", "r", "o", "n", "t">>,
      value |-> <<"C", "l", "o", "u", "d", " ", "F", "r", "o", "n", "t">>],
     [key |-> <<"e", "l", "a", "s", "t", "i", "c", "b", "e", "a", "n", "s", "t", "a", "l", "k">>,
      value |-> <<"E", "l", "a", "s", "t", "i", "c", " ", "B", "e", "a", "n", "s", "t", "a", "l", "k">>],
     [key |-> <<"e", "l", "a", "s", "t", "i", "c", "a", "c", "h", "e">>,
      value |-> <<"E", "l", "a", "s", "t", "i", "c", " ", "C", "a", "c", "h", "e">>],
     [key |-> <<"e", "l", "a", "s", "t", "i", "c", "i", "p">>,
      value |-> <<"E", "l", "a", "s", "t", "i", "c", " ", "I", "P">>],
     [key |-> <<"d", "y", "n", "a", "m", "o", "d", "b">>,
      value |-> <<"D", "y", "n", "a", "m", "o", " ", "D", "B">>],
     [key |-> <<"d", "o", "c", "u", "m", "e", "n", "t", "d", "b">>,
      value |-> <<"D", "o", "c", "u", "m", "e", "n", "t", " ", "D", "B">>],
     [key |-> <<"d", "o", "c", "d", "b">>,
      value |-> <<"D", "o", "c", "u", "m", "e", "n", "t", " ", "D", "B">>],
     [key |-> <<"o", "p", "e", "n", "s", "e", "a", "r", "c", "h">>,
      value |-> <<"O", "p", "e", "n", " ", "S", "e", "a", "r", "c", "h">>],
     [key |-> <<"q", "u", "i", "c", "k", "s", "i", "g", "h", "t">>,
      value |-> <<"Q", "u", "i", "c", "k", " ", "S", "i", "g", "h", "t">>],
     [key |-> <<"e", "v", "e", "n", "t", "b", "r", "i", "d", "g", "e">>,
      value |-> <<"E", "v", "e", "n", "t", " ", "B", "r", "i", "d", "g", "e">>],
     [key |-> <<"s", "t", "e", "p", "f", "u", "n", "c", "t", "i", "o", "n", "s">>,
      value |-> <<"S", "t", "e", "p", " ", "F", "u", "n", "c", "t", "i", "o", "n", "s">>],
     [key |-> <<"a", "p", "i", "g", "a", "t", "e", "w", "a", "y">>,
      value |-> <<"A", "P", "I", " ", "G", "a", "t", "e", "w", "a", "y">>],
     [key |-> <<"v", "p", "c", "p", "e", "e", "r", "i", "n", "g">>,
      value |-> <<"V", "P", "C", " ", "P", "e", "e", "r", "i", "n", "g">>],
     [key |-> <<"m", "i", "g", "r", "a", "t", "i", "o", "n", "h", "u", "b">>,
      value |-> <<"M", "i", "g", "r", "a", "t", "i", "o", "n", " ", "H", "u", "b">>],
     [key |-> <<"d", "a", "t", "a", "s", "y", "n", "c">>,
      value |-> <<"D", "a", "t", "a", " ", "S", "y", "n", "c">>],
     [key |-> <<"s", "a", "g", "e", "m", "a", "k", "e", "r">>,
      value |-> <<"S", "a", "g", "e", " ", "M", "a", "k", "e", "r">>]
  >>

specialAbbreviations ==
  <<
     [key |-> <<"e", "c", "2">>,
      value |-> <<"E", "C", "2">>],
     [key |-> <<"r", "d", "s">>,
      value |-> <<"R", "D", "S">>],
     [key |-> <<"v", "p", "c">>,
      value |-> <<"V", "P", "C">>],
     [key |-> <<"s", "3">>,
      value |-> <<"S", "3">>],
     [key |-> <<"i", "a", "m">>,
      value |-> <<"I", "A", "M">>],
     [key |-> <<"k", "m", "s">>,
      value |-> <<"K", "M", "S">>],
     [key |-> <<"s", "n", "s">>,
      value |-> <<"S", "N", "S">>],
     [key |-> <<"s", "q", "s">>,
      value |-> <<"S", "Q", "S">>],
     [key |-> <<"e", "k", "s">>,
      value |-> <<"E", "K", "S">>],
     [key |-> <<"e", "c", "s">>,
      value |-> <<"E", "C", "S">>],
     [key |-> <<"s", "s", "m">>,
      value |-> <<"S", "S", "M">>],
     [key |-> <<"a", "c", "m">>,
      value |-> <<"A", "C", "M">>],
     [key |-> <<"w", "a", "f">>,
      value |-> <<"W", "A", "F">>],
     [key |-> <<"c", "u", "r">>,
      value |-> <<"C", "U", "R">>],
     [key |-> <<"m", "g", "n">>,
      value |-> <<"M", "G", "N">>],
     [key |-> <<"d", "m", "s">>,
      value |-> <<"D", "M", "S">>],
     [key |-> <<"e", "m", "r">>,
      value |-> <<"E", "M", "R">>]
  >>

\* table[key]: the value of the key, or undefined.
HasEntry(entries, key) == \E i \in 1..Len(entries) : entries[i].key = key
EntryOf(entries, key) ==
  entries[CHOOSE i \in 1..Len(entries) : entries[i].key = key].value

RECURSIVE Flatten(_)
Flatten(pieces) ==
  IF pieces = <<>> THEN <<>> ELSE Head(pieces) \o Flatten(Tail(pieces))

\* .replace(/[_-]/g, ' ')
spaceSeparators(word) ==
  [i \in 1..Len(word) |-> IF word[i] \in {"_", "-"} THEN " " ELSE word[i]]

\* .replace(/([a-z])([A-Z])/g, '$1 $2')
spaceLowerUpper(word) ==
  Flatten([i \in 1..Len(word) |->
             IF i < Len(word) /\ IsLower(word[i]) /\ IsUpper(word[i + 1])
               THEN <<word[i], " ">> ELSE <<word[i]>>])

\* .replace(/([A-Z])([A-Z][a-z])/g, '$1 $2')
spaceUpperWord(word) ==
  Flatten([i \in 1..Len(word) |->
             IF /\ i + 2 <= Len(word)
                /\ IsUpper(word[i]) /\ IsUpper(word[i + 1]) /\ IsLower(word[i + 2])
               THEN <<word[i], " ">> ELSE <<word[i]>>])

\* .replace(/([a-z])([A-Z]{2,})/g, '$1 $2')
spaceLowerCapitals(word) ==
  Flatten([i \in 1..Len(word) |->
             IF /\ i + 2 <= Len(word)
                /\ IsLower(word[i]) /\ IsUpper(word[i + 1]) /\ IsUpper(word[i + 2])
               THEN <<word[i], " ">> ELSE <<word[i]>>])

\* .replace(/\s+/g, ' ')
collapseSpaces(word) ==
  Flatten([i \in 1..Len(word) |->
             IF word[i] = " " /\ i > 1 /\ word[i - 1] = " "
               THEN <<>> ELSE <<word[i]>>])

RECURSIVE trim(_)
trim(word) ==
  IF word = <<>> THEN word
  ELSE IF Head(word) = " " THEN trim(Tail(word))
  ELSE IF word[Len(word)] = " " THEN trim(SubSeq(word, 1, Len(word) - 1))
  ELSE word

\* .split(' ')
RECURSIVE split(_)
split(word) ==
  IF \A i \in 1..Len(word) : word[i] # " " THEN <<word>>
  ELSE LET at == CHOOSE i \in 1..Len(word) :
                   word[i] = " " /\ \A j \in 1..(i - 1) : word[j] # " "
       IN  <<SubSeq(word, 1, at - 1)>> \o split(SubSeq(word, at + 1, Len(word)))

\* .join(' ')
RECURSIVE join(_)
join(words) ==
  IF words = <<>> THEN <<>>
  ELSE IF Len(words) = 1 THEN words[1]
  ELSE words[1] \o <<" ">> \o join(Tail(words))

\* The callback of the map over the words.
titleCased(word) ==
  LET lowerWord == lowerCased(word)
  IN  IF HasEntry(specialAbbreviations, lowerWord)
        THEN EntryOf(specialAbbreviations, lowerWord)
      ELSE IF word = <<>> THEN <<>>
      ELSE <<upperOf(word[1])>> \o lowerCased(Tail(word))

formatServiceName(name) ==
  IF name = <<>> THEN <<>>
  ELSE
    LET lowerServiceName == lowerCased(name)
    IN  IF HasEntry(directReplacements, lowerServiceName)
          THEN EntryOf(directReplacements, lowerServiceName)
        ELSE IF HasEntry(specialAbbreviations, lowerServiceName)
          THEN EntryOf(specialAbbreviations, lowerServiceName)
        ELSE
          LET spaced == trim(collapseSpaces(spaceLowerCapitals(spaceUpperWord(
                          spaceLowerUpper(spaceSeparators(name))))))
              words == split(spaced)
          IN  join([i \in 1..Len(words) |-> titleCased(words[i])])

\* The service names of the two tables, and names outside them.
TableNames ==
  {directReplacements[i].key : i \in 1..Len(directReplacements)}
  \cup {specialAbbreviations[i].key : i \in 1..Len(specialAbbreviations)}
OtherNames ==
  {<<"l", "a", "m", "b", "d", "a">>,
   <<"c", "l", "o", "u", "d", "w", "a", "t", "c", "h", "l", "o", "g", "s">>,
   <<"d", "y", "n", "a", "m", "o", "D", "B">>,
   <<"C", "L", "O", "U", "D", "E", "X", "P", "L", "O", "R", "E", "R">>,
   <<"r", "o", "u", "t", "e", "5", "3">>,
   <<"m", "y", "_", "s", "e", "r", "v", "i", "c", "e">>,
   <<"a", "u", "t", "o", "-", "s", "c", "a", "l", "i", "n", "g">>,
   <<"E", "C", "2">>}

InitName ==
  /\ BackendIdle
  /\ LambdaIdle
  /\ StoreIdle
  /\ GridIdle
  /\ SortIdle
  /\ rawName \in TableNames \cup OtherNames
  /\ modelName = <<>>
  /\ cardName = <<>>
  /\ fpc = "discovered"

\* createServiceModelWithData: name: formatServiceName(serviceName)
NameServiceModel ==
  /\ fpc = "discovered"
  /\ modelName' = formatServiceName(rawName)
  /\ fpc' = "modelled"
  /\ UNCHANGED <<rawName, cardName>>
  /\ UNCHANGED exceptName

\* ServiceCard: {formatServiceName(service.name)}
ServiceCard ==
  /\ fpc = "modelled"
  /\ cardName' = formatServiceName(modelName)
  /\ fpc' = "shown"
  /\ UNCHANGED <<rawName, modelName>>
  /\ UNCHANGED exceptName

NextName == NameServiceModel \/ ServiceCard

SpecName == InitName /\ [][NextName]_vars

(***************************************************************************)
(* Claims about service names                                              *)
(***************************************************************************)

\* C30: for a service name of the tables, formatting the formatted name
\* gives the formatted name again, so the card shows the name of the model.
C30_FormatIdempotent ==
  (fpc = "shown" /\ rawName \in TableNames)
    => /\ cardName = modelName
       /\ formatServiceName(formatServiceName(rawName)) = formatServiceName(rawName)

====
